---------------------------- MODULE Spec2Model ----------------------------
(***************************************************************************)
(* A model of the xoshiro/xoroshiro state engines of include/xoshiro.h and *)
(* of the GF(2) jump-ahead machinery built on them: reduce (x^J mod c(x)), *)
(* jump (evaluation of the jump polynomial at the transition operator),    *)
(* and partition (hand-out of sub-stream start states).                    *)
(*                                                                         *)
(* A machine word is modelled as the set of its set bit positions, so a    *)
(* 32-bit word is a subset of 0..31.  Bitwise xor is symmetric difference, *)
(* left shift drops the positions pushed past the top, rotl wraps them.    *)
(* Arrays are functions on 0..N-1, as in the source.                       *)
(***************************************************************************)
EXTENDS Integers, Sequences, FiniteSets, TLC

---------------------------------------------------------------------------
(* Loops *)

\* A for-loop of the source: for (; st.i < hi; ) st = Body(st), where Body
\* advances st.i by exactly one.  The iteration space is split in halves so
\* that evaluation stays shallow; the result is that of running the body
\* hi - st.i times in order.
RECURSIVE Loop(_, _, _)
Loop(Body(_), st, hi) ==
    IF st.i >= hi THEN st
    ELSE IF hi - st.i = 1 THEN Body(st)
    ELSE Loop(Body, Loop(Body, st, st.i + ((hi - st.i) \div 2)), hi)

\* An array value.  Array(f) = f: merging with the empty function changes
\* nothing, but makes the evaluator build the array once, element by element,
\* where it is written, rather than each time an element is read.
Array(f) == f @@ <<>>

---------------------------------------------------------------------------
(* Words *)

Bits(W) == 0 .. (W - 1)

\* std::numeric_limits<word_type>::max(): every bit set
Ones(W) == Bits(W)

Min(S) == CHOOSE x \in S : \A y \in S : x <= y

Max(S) == CHOOSE x \in S : \A y \in S : x >= y

\* a ^ b
Xor(a, b) == (a \ b) \cup (b \ a)

\* w << k on a W-bit unsigned word
Shl(W, w, k) == {b + k : b \in {x \in w : x + k < W}}

\* w >> k
Shr(w, k) == {b - k : b \in {x \in w : x >= k}}

\* A faulty rotation: the bits rotated out at the top are lost (w << k)
shift_for_rotl(W, w, k) == {b + k : b \in {x \in w : x + k < W}}

\* std::rotl(w, k) on a W-bit unsigned word
Rotl(W, w, k) == {(b + k) % W : b \in w}

\* The word whose value is the 16-bit number h, placed at bit offset 16*q.
Chunk(h, q) == {16 * q + b : b \in {x \in 0 .. 15 : (h \div (2 ^ x)) % 2 = 1}}

\* A 32-bit literal 0xHHHHLLLL given as its two 16-bit halves, high half first.
Hex32(h1, h0) == Chunk(h1, 1) \cup Chunk(h0, 0)

\* A 64-bit literal given as its four 16-bit quarters, highest first.
Hex64(h3, h2, h1, h0) == Chunk(h3, 3) \cup Chunk(h2, 2) \cup Chunk(h1, 1) \cup Chunk(h0, 0)

\* An array literal: the sequence <<w0, ..., w_{N-1}>> as a function on 0..N-1.
Arr(s) == Array([i \in 0 .. (Len(s) - 1) |-> s[i + 1]])

\* std::array<T, N> with every word zero
Zeros(N) == Array([i \in 0 .. (N - 1) |-> {}])

\* A faulty word-wise xor: and in place of xor (sum[w] &= state[w])
AndArr(x, y) == Array([i \in DOMAIN x |-> x[i] \cap y[i]])

\* Word-wise xor of two arrays
XorArr(x, y) == Array([i \in DOMAIN x |-> Xor(x[i], y[i])])

---------------------------------------------------------------------------
(* The shipped parameterizations (the type aliases of the source) *)

xoshiro_4x32    == [family |-> "xoshiro",   N |-> 4,  W |-> 32, A |-> 9,  B |-> 11, C |-> 0]
xoshiro_4x64    == [family |-> "xoshiro",   N |-> 4,  W |-> 64, A |-> 17, B |-> 45, C |-> 0]
xoshiro_8x64    == [family |-> "xoshiro",   N |-> 8,  W |-> 64, A |-> 11, B |-> 21, C |-> 0]
xoroshiro_2x32  == [family |-> "xoroshiro", N |-> 2,  W |-> 32, A |-> 26, B |-> 9,  C |-> 13]
xoroshiro_2x64  == [family |-> "xoroshiro", N |-> 2,  W |-> 64, A |-> 24, B |-> 16, C |-> 37]
xoroshiro_2x64b == [family |-> "xoroshiro", N |-> 2,  W |-> 64, A |-> 49, B |-> 21, C |-> 28]
xoroshiro_16x64 == [family |-> "xoroshiro", N |-> 16, W |-> 64, A |-> 25, B |-> 27, C |-> 36]

\* State::bit_count()
bit_count(z) == z.N * z.W

---------------------------------------------------------------------------
(* The state classes.  A state is [m_state, m_final]; m_final is the       *)
(* xoroshiro ring-buffer index of the final word (absent in xoshiro, where *)
(* the model keeps it at N - 1 and never reads it).                        *)

\* A faulty step: the statement s[1] ^= s[2] is left out
xoshiro_step4_keeps_s1(z, m) ==
    LET tmp == Shl(z.W, m[1], z.A)
        s2  == Xor(m[2], m[0])
        s3  == Xor(m[3], m[1])
        s0  == Xor(m[0], s3)
    IN  Array([i \in 0 .. 3 |->
            CASE i = 0 -> s0
              [] i = 1 -> m[1]
              [] i = 2 -> Xor(s2, tmp)
              [] i = 3 -> Rotl(z.W, s3, z.B)])

\* xoshiro::step, N == 4
xoshiro_step4(z, m) ==
    LET tmp == Shl(z.W, m[1], z.A)
        s2  == Xor(m[2], m[0])
        s3  == Xor(m[3], m[1])
        s1  == Xor(m[1], s2)
        s0  == Xor(m[0], s3)
    IN  Array([i \in 0 .. 3 |->
            CASE i = 0 -> s0
              [] i = 1 -> s1
              [] i = 2 -> Xor(s2, tmp)
              [] i = 3 -> Rotl(z.W, s3, z.B)])

\* A faulty step: s[1] |= s[2] in place of s[1] ^= s[2]
xoshiro_step8_or(z, m) ==
    LET tmp == Shl(z.W, m[1], z.A)
        s2  == Xor(m[2], m[0])
        s5  == Xor(m[5], m[1])
        s1  == m[1] \cup s2
        s7  == Xor(m[7], m[3])
        s3  == Xor(m[3], m[4])
        s4  == Xor(m[4], s5)
        s0  == Xor(m[0], m[6])
        s6  == Xor(m[6], s7)
    IN  Array([i \in 0 .. 7 |->
            CASE i = 0 -> s0
              [] i = 1 -> s1
              [] i = 2 -> s2
              [] i = 3 -> s3
              [] i = 4 -> s4
              [] i = 5 -> s5
              [] i = 6 -> Xor(s6, tmp)
              [] i = 7 -> Rotl(z.W, s7, z.B)])

\* xoshiro::step, N == 8
xoshiro_step8(z, m) ==
    LET tmp == Shl(z.W, m[1], z.A)
        s2  == Xor(m[2], m[0])
        s5  == Xor(m[5], m[1])
        s1  == Xor(m[1], s2)
        s7  == Xor(m[7], m[3])
        s3  == Xor(m[3], m[4])
        s4  == Xor(m[4], s5)
        s0  == Xor(m[0], m[6])
        s6  == Xor(m[6], s7)
    IN  Array([i \in 0 .. 7 |->
            CASE i = 0 -> s0
              [] i = 1 -> s1
              [] i = 2 -> s2
              [] i = 3 -> s3
              [] i = 4 -> s4
              [] i = 5 -> s5
              [] i = 6 -> Xor(s6, tmp)
              [] i = 7 -> Rotl(z.W, s7, z.B)])

\* xoroshiro::simple_step: shift the words down a slot, recompute the last two.
simple_step(z, s) ==
    LET N    == z.N
        m    == s.m_state
        s0   == m[0]
        s1   == Xor(m[N - 1], s0)
        down == Array([i \in 0 .. (N - 1) |-> IF i < N - 2 THEN m[i + 1] ELSE m[i]])
    IN  [s EXCEPT !.m_state =
            [down EXCEPT ![N - 2] = Xor(Xor(Rotl(z.W, s0, z.A), Shl(z.W, s1, z.B)), s1),
                         ![N - 1] = Rotl(z.W, s1, z.C)]]

\* A faulty clever_step: the two words are updated but m_final is not moved on
clever_step_no_advance(z, s) ==
    LET i_final == s.m_final
        i_first == (s.m_final + 1) % z.N
        s_first == s.m_state[i_first]
        s_final == Xor(s.m_state[i_final], s_first)
    IN  [s EXCEPT !.m_state =
            [s.m_state EXCEPT
                ![i_final] = Xor(Xor(Rotl(z.W, s_first, z.A), Shl(z.W, s_final, z.B)), s_final),
                ![i_first] = Rotl(z.W, s_final, z.C)]]

\* A faulty clever_step: the words are updated but m_final is left where it was
clever_step_final_stays(z, s) ==
    LET N       == z.N
        i_final == s.m_final
        i_first == (s.m_final + 1) % N
        s_first == s.m_state[i_first]
        s_final == Xor(s.m_state[i_final], s_first)
        m1      == [s.m_state EXCEPT
                       ![i_final] = Xor(Xor(Rotl(z.W, s_first, z.A), Shl(z.W, s_final, z.B)), s_final)]
        m2      == [m1 EXCEPT ![i_first] = Rotl(z.W, s_final, z.C)]
    IN  [m_state |-> m2, m_final |-> i_final]

\* xoroshiro::clever_step: update the final & first words in place, move m_final.
clever_step(z, s) ==
    LET N       == z.N
        i_final == s.m_final
        i_first == (s.m_final + 1) % N
        s_first == s.m_state[i_first]
        s_final == Xor(s.m_state[i_final], s_first)
        m1      == [s.m_state EXCEPT
                       ![i_final] = Xor(Xor(Rotl(z.W, s_first, z.A), Shl(z.W, s_final, z.B)), s_final)]
        m2      == [m1 EXCEPT ![i_first] = Rotl(z.W, s_final, z.C)]
    IN  [m_state |-> m2, m_final |-> i_first]

\* State::step()
step(z, s) ==
    IF z.family = "xoshiro"
    THEN [s EXCEPT !.m_state = IF z.N = 4 THEN xoshiro_step4(z, s.m_state)
                                          ELSE xoshiro_step8(z, s.m_state)]
    ELSE IF z.N = 2 THEN simple_step(z, s) ELSE clever_step(z, s)

\* State::operator[]: the i'th logical word of state
word_at(z, s, i) ==
    IF z.family = "xoshiro" THEN s.m_state[i]
    ELSE s.m_state[(i + s.m_final + 1) % z.N]

\* State::get_state: the logical words in order
get_state(z, s) == Array([i \in 0 .. (z.N - 1) |-> word_at(z, s, i)])

\* A faulty seed: m_final is reset to 0, the first word, not to the last
seed_final_first(z, words) == [m_state |-> words, m_final |-> 0]

\* A faulty seed: an all-zero range is replaced by the default words {1}
seed_zero_to_default(z, words) ==
    [m_state |-> IF \A i \in DOMAIN words : words[i] = {}
                 THEN Array([words EXCEPT ![0] = {0}])
                 ELSE words,
     m_final |-> z.N - 1]

\* State::seed(b, e): copy the words in and (xoroshiro) reset m_final
seed(z, words) == [m_state |-> words, m_final |-> z.N - 1]

\* A faulty discard: the loop runs while i <= k, one step too many
discard_one_more(z, s, k) ==
    Loop(LAMBDA st : [i |-> st.i + 1, s |-> step(z, st.s)], [i |-> 0, s |-> s], k + 1).s

\* generator::discard(k): for (i = 0; i < k; ++i) step();
discard(z, s, k) ==
    Loop(LAMBDA st : [i |-> st.i + 1, s |-> step(z, st.s)], [i |-> 0, s |-> s], k).s

---------------------------------------------------------------------------
(* Polynomial reduction (namespace xso::internal).  A polynomial over      *)
(* GF(2) of degree < n = N*W is an array of N words; coefficient i is bit  *)
(* i % W of word i / W.                                                    *)

\* The number of words of an array
NWords(a) == Cardinality(DOMAIN a)

\* The W-bit word w divided by the small positive integer d (the unsigned
\* division ones / div of the source), by long division from the top bit down.
DivWord(W, w, d) ==
    Loop(LAMBDA st :
            LET b   == W - 1 - st.i
                rem == 2 * st.rem + (IF b \in w THEN 1 ELSE 0)
            IN  [i   |-> st.i + 1,
                 rem |-> IF rem >= d THEN rem - d ELSE rem,
                 q   |-> IF rem >= d THEN st.q \cup {b} ELSE st.q],
         [i |-> 0, rem |-> 0, q |-> {}], W).q

\* msk = ones / (word_type(one << i) | one)
riffle_msk(W, i) == DivWord(W, Ones(W), (2 ^ i) + 1)

\* The word widths of std::unsigned_integral types the model instantiates
WordWidths == {8, 16, 32, 64}

\* riffle_msk is a constant of (W, i): computed once and looked up afterwards.
riffle_msk_memo ==
    Array([W \in WordWidths |-> Array([i \in 1 .. (W \div 4) |-> riffle_msk(W, i)])])

\* A faulty word riffle: the two halves as they are, not interleaved with zeros
riffle_word_halves(W, src) ==
    [lo |-> src \cap Shr(Ones(W), W \div 2), hi |-> Shr(src, W \div 2)]

\* riffle(word_type src, word_type& lo, word_type& hi)
riffle_word(W, src) ==
    LET half_bits == W \div 2
        RECURSIVE spread(_, _)
        \* for (auto i = bits_per_word / 4; i > 0; i /= 2)
        spread(v, i) ==
            IF i = 0 THEN v
            ELSE LET msk == riffle_msk_memo[W][i]
                 IN  spread([lo |-> Xor(v.lo, Shl(W, v.lo, i)) \cap msk,
                             hi |-> Xor(v.hi, Shl(W, v.hi, i)) \cap msk], i \div 2)
    IN  spread([lo |-> src \cap Shr(Ones(W), half_bits), hi |-> Shr(src, half_bits)],
               W \div 4)

\* The contents of an array that has been declared but not yet written.
Uninit(N) == Array([i \in 0 .. (N - 1) |-> {-1}])

\* The body of the loop of riffle for word i of src, riffled into the pair xy:
\* the pair goes to the top of hi, across the two arrays, or to the low of lo.
riffle_store(mem, lo, hi, i, xy) ==
    LET N == NWords(mem[lo])
    IN  IF 2 * i + 1 > N
        THEN [mem EXCEPT ![hi][2 * i - N] = xy.lo, ![hi][2 * i + 1 - N] = xy.hi]
        ELSE IF 2 * i + 1 = N
        THEN [mem EXCEPT ![lo][N - 1] = xy.lo, ![hi][0] = xy.hi]
        ELSE [mem EXCEPT ![lo][2 * i] = xy.lo, ![lo][2 * i + 1] = xy.hi]

\* A faulty array riffle: src is worked through from word 0 up, so that with
\* lo aliased to src words are overwritten before they are read
riffle_forward(W, mem, src, lo, hi) ==
    Loop(LAMBDA st : [i   |-> st.i + 1,
                      mem |-> riffle_store(st.mem, lo, hi, st.i,
                                           riffle_word(W, st.mem[src][st.i]))],
         [i |-> 0, mem |-> mem], NWords(mem[src])).mem

\* riffle(const std::array& src, std::array& lo, std::array& hi).  The three
\* arguments are references: mem maps array names to contents, and src, lo, hi
\* are names, so that riffle(src, src, hi) reads and writes the same array.
riffle(W, mem, src, lo, hi) ==
    Loop(LAMBDA st : [i   |-> st.i + 1,
                      mem |-> riffle_store(st.mem, lo, hi, NWords(mem[src]) - 1 - st.i,
                                           riffle_word(W, st.mem[src][NWords(mem[src]) - 1 - st.i]))],
         [i |-> 0, mem |-> mem], NWords(mem[src])).mem

\* static_cast<std::size_t>(-1): "no such position"; only compared for equality.
npos == -1

\* lambda test: true if poly_i is 1
test(W, poly, i) == (i % W) \in poly[i \div W]

\* lambda set: sets poly_i to 1
set(W, poly, i) == [poly EXCEPT ![i \div W] = @ \cup {i % W}]

\* lambda lsb: index of the least significant set bit, npos if none
lsb(w) == IF w = {} THEN npos ELSE Min(w)

\* lambda msb: std::bit_width(w) - 1
msb(w) == IF w = {} THEN npos ELSE Max(w)

\* lambda first_set: the first set coefficient of poly, npos if none
first_set(W, poly) ==
    LET nz == {i \in DOMAIN poly : poly[i] # {}}
    IN  IF nz = {} THEN npos ELSE Min(nz) * W + lsb(poly[Min(nz)])

\* lambda final_set: the final set coefficient of poly, npos if none
final_set(W, poly) ==
    LET nz == {i \in DOMAIN poly : poly[i] # {}}
    IN  IF nz = {} THEN npos ELSE Max(nz) * W + msb(poly[Max(nz)])

\* lambda monic: the highest coefficient of poly is set
monic(W, poly) == (W - 1) \in poly[NWords(poly) - 1]

\* lambda add: lhs <- lhs ^ rhs
add(lhs, rhs) == XorArr(lhs, rhs)

\* A faulty shift: each word shifted on its own, no bit carried across words
shift_no_carry(W, poly) == Array([i \in DOMAIN poly |-> Shl(W, poly[i], 1)])

\* lambda shift: one place up, the top bit of each word carried into the next
shift(W, poly) ==
    Array([i \in DOMAIN poly |->
              IF i = 0 THEN Shl(W, poly[0], 1)
              ELSE Shl(W, poly[i], 1) \cup Shr(poly[i - 1], W - 1)])

\* A faulty times_x_step: the shift alone, the overflowing x^n never folded back
times_x_step_no_fold(W, p, poly) == shift(W, poly)

\* lambda times_x_step: poly(x) <- x * poly(x) mod c(x)
times_x_step(W, p, poly) ==
    IF monic(W, poly) THEN add(shift(W, poly), p) ELSE shift(W, poly)

\* A faulty power table: it starts at x * p(x), one power too high
power_mod_one_up(W, p) ==
    Loop(LAMBDA st : [i   |-> st.i + 1,
                      tab |-> Append(st.tab, times_x_step(W, p, st.tab[st.i]))],
         [i |-> 1, tab |-> <<times_x_step(W, p, p)>>], NWords(p) * W).tab

\* power_mod[i] = x^(n+i) mod c(x), i = 0 .. n-1 (kept as the sequence whose
\* element i + 1 is power_mod[i])
power_mod(W, p) ==
    Loop(LAMBDA st : [i   |-> st.i + 1,
                      tab |-> Append(st.tab, times_x_step(W, p, st.tab[st.i]))],
         [i |-> 1, tab |-> <<p>>], NWords(p) * W).tab

\* A faulty square_step: the riffled low half alone, the high half dropped
square_step_low_half(W, pm, poly) ==
    riffle(W, [poly |-> poly, hi |-> Uninit(NWords(poly))], "poly", "poly", "hi").poly

\* A faulty fold: the scan stops before hi_final (i < hi_final), so the last
\* set term of hi is never folded in
square_fold_stops_short(W, pm, poly, hi, hi_first, hi_final) ==
    IF hi_first = npos THEN poly
    ELSE Loop(LAMBDA st : [i    |-> st.i + 1,
                           poly |-> IF test(W, hi, hi_first + 2 * st.i)
                                    THEN add(st.poly, pm[hi_first + 2 * st.i + 1])
                                    ELSE st.poly],
              [i |-> 0, poly |-> poly],
              (hi_final - hi_first) \div 2).poly

\* The second half of square_step: the terms of hi, the high half of the
\* square, are folded into poly through the power_mod table pm.
\* for (i = hi_first; i <= hi_final; i += 2) if (test(hi, i)) add(poly, pm[i])
square_fold(W, pm, poly, hi, hi_first, hi_final) ==
    IF hi_first = npos THEN poly
    ELSE Loop(LAMBDA st : [i    |-> st.i + 1,
                           poly |-> IF test(W, hi, hi_first + 2 * st.i)
                                    THEN add(st.poly, pm[hi_first + 2 * st.i + 1])
                                    ELSE st.poly],
              [i |-> 0, poly |-> poly],
              ((hi_final - hi_first) \div 2) + 1).poly

\* square_step once poly has been riffled into mem.poly and mem.hi
square_reduce(W, pm, mem) ==
    square_fold(W, pm, mem.poly, mem.hi, first_set(W, mem.hi), final_set(W, mem.hi))

\* lambda square_step: poly(x) <- poly(x)^2 mod c(x); pm is the power_mod table
square_step(W, pm, poly) ==
    square_reduce(W, pm,
                  riffle(W, [poly |-> poly, hi |-> Uninit(NWords(poly))], "poly", "poly", "hi"))

\* std::bit_floor on a std::size_t: the largest power of two not above x
RECURSIVE bit_floor(_)
bit_floor(x) == IF x <= 1 THEN x ELSE 2 * bit_floor(x \div 2)

\* The number of times a power of two is halved before it is zero, less one
RECURSIVE countr_zero(_)
countr_zero(x) == IF x <= 1 THEN 0 ELSE 1 + countr_zero(x \div 2)

\* A faulty multiply: times_x_step whatever the current bit of J is
times_x_step_always(W, p, poly, bit) == times_x_step(W, p, poly)

\* if (J & J_bit) times_x_step(r)
times_x_step_if(W, p, poly, bit) == IF bit THEN times_x_step(W, p, poly) ELSE poly

\* The square & multiply loop of reduce, from r(x) = x:
\* J_bit = bit_floor(J) >> 1; while (J_bit) { square_step(r);
\* if (J & J_bit) times_x_step(r); J_bit >>= 1; }
square_and_multiply(W, p, pm, J) ==
    Loop(LAMBDA st : [i     |-> st.i + 1,
                      J_bit |-> st.J_bit \div 2,
                      r     |-> times_x_step_if(W, p, square_step(W, pm, st.r),
                                                (J \div st.J_bit) % 2 = 1)],
         [i |-> 0, J_bit |-> bit_floor(J) \div 2, r |-> set(W, Zeros(NWords(p)), 1)],
         countr_zero(bit_floor(J))).r

\* A faulty power-of-two loop: a do-while, which squares once even for J = 0
repeated_squaring_do_while(W, p, pm, J) ==
    Loop(LAMBDA st : [i |-> st.i + 1, r |-> square_step(W, pm, st.r)],
         [i |-> 0, r |-> set(W, Zeros(NWords(p)), 1)], Max({J, 1})).r

\* The power-of-two loop of reduce, from r(x) = x:
\* for (j = 0; j < J; ++j) square_step(r)
repeated_squaring(W, p, pm, J) ==
    Loop(LAMBDA st : [i |-> st.i + 1, r |-> square_step(W, pm, st.r)],
         [i |-> 0, r |-> set(W, Zeros(NWords(p)), 1)], J).r

\* A faulty reduce: for J = n the work array r, still zero, is returned, not p
reduce_returns_r(W, p, J, J_is_pow2) ==
    IF J_is_pow2 THEN repeated_squaring(W, p, power_mod(W, p), J)
    ELSE IF J < NWords(p) * W THEN set(W, Zeros(NWords(p)), J)
    ELSE IF J = NWords(p) * W THEN Zeros(NWords(p))
    ELSE square_and_multiply(W, p, power_mod(W, p), J)

\* reduce(p, J, J_is_pow2): x^J mod c(x), or x^(2^J) mod c(x), c(x) = x^n + p(x)
reduce(W, p, J, J_is_pow2) ==
    IF J_is_pow2 THEN repeated_squaring(W, p, power_mod(W, p), J)
    ELSE IF J < NWords(p) * W THEN set(W, Zeros(NWords(p)), J)
    ELSE IF J = NWords(p) * W THEN p
    ELSE square_and_multiply(W, p, power_mod(W, p), J)

---------------------------------------------------------------------------
(* Jumps and partitions (namespace xso) *)

\* The result of a call that threw std::invalid_argument instead of returning.
\* It is a one-word array no table holds, so it compares unequal to every p(x).
invalid_argument == Array([i \in {0} |-> {-1}])

\* The if-constexpr chain of characteristic_coefficients: true when some branch
\* other than the final throwing else matches the template parameters.
has_coefficients(z) ==
    z \in {xoshiro_4x32, xoshiro_4x64, xoshiro_8x64,
           xoroshiro_2x32, xoroshiro_2x64, xoroshiro_2x64b, xoroshiro_16x64}

\* A faulty characteristic_coefficients: the first branch of the chain taken
\* whatever the template parameters are, so that no call ever throws
first_table_always(z) ==
    Arr(<<Hex32(\Hde18, \Hfc01), Hex32(\H1b48, \H9db6),
          Hex32(\H0062, \H54b1), Hex32(\H00fc, \H65a2)>>)

\* State::characteristic_coefficients: the precomputed p(x) of the state type,
\* or the exception thrown when the parameters have no table entry.
characteristic_coefficients(z) ==
    CASE z = xoshiro_4x32 ->
            Arr(<<Hex32(\Hde18, \Hfc01), Hex32(\H1b48, \H9db6),
                  Hex32(\H0062, \H54b1), Hex32(\H00fc, \H65a2)>>)
      [] z = xoshiro_4x64 ->
            Arr(<<Hex64(\H9d11, \H6f2b, \Hb0f0, \Hf001), Hex64(\H0280, \H002b, \Hcefd, \H1a5e),
                  Hex64(\H04b4, \Hedcf, \H2625, \H9f85), Hex64(\H0003, \Hc03c, \H3f3e, \Hcb19)>>)
      [] z = xoshiro_8x64 ->
            Arr(<<Hex64(\Hcf3c, \Hff0c, \H0000, \H0001), Hex64(\H7fdc, \H78d8, \H86f0, \H0c63),
                  Hex64(\Hf05e, \H63fc, \Ha6d7, \Hb781), Hex64(\H7a67, \H058e, \H7bba, \Hb6f0),
                  Hex64(\Hf11e, \Hef83, \H2e32, \H518f), Hex64(\H51ba, \H7c47, \Hedc7, \H58ad),
                  Hex64(\H8f2d, \H2726, \H8ce4, \Hb20b), Hex64(\H0000, \H5000, \H55d8, \Hb77f)>>)
      [] z = xoroshiro_2x32 ->
            Arr(<<Hex32(\H6e22, \H86c1), Hex32(\H053b, \He9da)>>)
      [] z = xoroshiro_2x64 ->
            Arr(<<Hex64(\H095b, \H8f76, \H579a, \Ha001), Hex64(\H0008, \H828e, \H513b, \H43d5)>>)
      [] z = xoroshiro_2x64b ->
            Arr(<<Hex64(\H8dae, \H7077, \H9760, \Hb081), Hex64(\H0031, \Hbcf2, \Hf855, \Hd6e5)>>)
      [] z = xoroshiro_16x64 ->
            Arr(<<Hex64(\H5cfe, \Hb8cc, \H48dd, \Hb211), Hex64(\Hb73e, \H379d, \H035a, \H06dd),
                  Hex64(\H17d5, \H100a, \H20a0, \H350e), Hex64(\H7550, \H223f, \H68f9, \H8cac),
                  Hex64(\H29d3, \H73b5, \Hc5ed, \H3459), Hex64(\H3689, \Hb412, \Hef70, \Hde48),
                  Hex64(\Ha1d3, \Hb6ee, \H079a, \H7cc6), Hex64(\H9bf0, \Hb669, \Habd1, \H00f8),
                  Hex64(\H955c, \H84e1, \H05f6, \H0997), Hex64(\H6ca1, \H40c6, \H1889, \Hcddd),
                  Hex64(\Habaf, \H68c5, \Hfc3a, \H0e4a), Hex64(\Ha461, \H3452, \H6b83, \Hadc5),
                  Hex64(\H0710, \H704d, \H0568, \H3d63), Hex64(\H580d, \H080b, \H44b6, \H06a2),
                  Hex64(\H0080, \H40a0, \H5801, \H58a1), Hex64(\H0000, \H0000, \H0080, \H0081)>>)
      [] OTHER -> invalid_argument

\* Faulty jump coefficients: x^(J+1) mod c(x), one step too far
jump_coefficients_one_on(z, J, J_is_pow2) ==
    LET p == characteristic_coefficients(z)
    IN  IF ~has_coefficients(z) THEN invalid_argument ELSE reduce(z.W, p, J + 1, J_is_pow2)

\* jump_coefficients<State>(N, N_is_pow2)
jump_coefficients(z, J, J_is_pow2) ==
    LET p == characteristic_coefficients(z)
    IN  IF ~has_coefficients(z) THEN invalid_argument ELSE reduce(z.W, p, J, J_is_pow2)

\* Faulty loops of jump: state.step() inside the if, called only at the
\* positions where the coefficient is set
jump_loops_step_if_set(z, state, jump_coeff) ==
    Loop(LAMBDA so :
            LET ji    == jump_coeff[so.i]
                inner ==
                  Loop(LAMBDA sb :
                          [i     |-> sb.i + 1,
                           sum   |-> IF sb.i \in ji
                                     THEN XorArr(sb.sum, get_state(z, sb.state))
                                     ELSE sb.sum,
                           state |-> IF sb.i \in ji THEN step(z, sb.state) ELSE sb.state,
                           calls |-> IF sb.i \in ji THEN sb.calls + 1 ELSE sb.calls],
                       [i |-> 0, sum |-> so.sum, state |-> so.state, calls |-> so.calls],
                       z.W)
            IN  [i |-> so.i + 1, sum |-> inner.sum, state |-> inner.state,
                 calls |-> inner.calls],
         [i |-> 0, sum |-> Zeros(z.N), state |-> state, calls |-> 0], z.N)

\* The loops of jump: every bit position b of every word i of jump_coeff is
\* visited; the state is added to sum where the bit is set, and state.step()
\* is called at every position.  calls counts the step() calls.
jump_loops(z, state, jump_coeff) ==
    Loop(LAMBDA so :
            LET ji    == jump_coeff[so.i]
                inner ==
                  Loop(LAMBDA sb :
                          [i     |-> sb.i + 1,
                           sum   |-> IF sb.i \in ji
                                     THEN XorArr(sb.sum, get_state(z, sb.state))
                                     ELSE sb.sum,
                           state |-> step(z, sb.state),
                           calls |-> sb.calls + 1],
                       [i |-> 0, sum |-> so.sum, state |-> so.state, calls |-> so.calls],
                       z.W)
            IN  [i |-> so.i + 1, sum |-> inner.sum, state |-> inner.state,
                 calls |-> inner.calls],
         [i |-> 0, sum |-> Zeros(z.N), state |-> state, calls |-> 0], z.N)

\* A faulty jump: sum is copied into m_state and m_final is left where the n
\* step() calls have put it
jump_keeps_final(z, state, jump_coeff) ==
    LET run == jump_loops(z, state, jump_coeff)
    IN  [m_state |-> run.sum, m_final |-> run.state.m_final]

\* jump(State& state, const std::array& jump_coeff)
jump(z, state, jump_coeff) == seed(z, jump_loops(z, state, jump_coeff).sum)

\* The width of std::size_t
size_bits == 64

\* The std::size_t whose value is the natural number k, as a word
SizeT(k) == {b \in 0 .. 30 : (k \div (2 ^ b)) % 2 = 1}

\* A faulty n_partitions - 1: the count is left as it is
no_decrement(w) == w

\* w - 1 on a std::size_t word (0 - 1 wraps to the all-ones word)
Decrement(w) ==
    IF w = {} THEN Bits(size_bits)
    ELSE (w \ {Min(w)}) \cup (0 .. (Min(w) - 1))

\* std::bit_width on a std::size_t word
bit_width(w) == IF w = {} THEN 0 ELSE Max(w) + 1

\* A faulty constructor: the bit width of n_partitions itself, not of
\* n_partitions - 1, so that exact powers of two are rounded up once more
partition_no_decrement(z, state, n_partitions) ==
    LET np      == IF n_partitions = {} THEN SizeT(1) ELSE n_partitions
        power_2 == bit_count(z) - bit_width(np)
    IN  [m_state |-> state, m_jump_coefficients |-> jump_coefficients(z, power_2, TRUE)]

\* partition::partition(const State& state, std::size_t n_partitions): the
\* members [m_state, m_jump_coefficients] the constructor leaves behind.
partition(z, state, n_partitions) ==
    LET np      == IF n_partitions = {} THEN SizeT(1) ELSE n_partitions
        n_bits  == bit_count(z)
        n       == bit_width(Decrement(np))
        power_2 == n_bits - n
    IN  [m_state |-> state, m_jump_coefficients |-> jump_coefficients(z, power_2, TRUE)]

\* A faulty partition::next: the generator handed out is the partition's own
\* m_state (a reference), not a copy of it.
next_by_reference(z, mem, part) ==
    [mem    |-> [mem EXCEPT ![part.m_state] = jump(z, @, part.m_jump_coefficients)],
     retval |-> part.m_state]

\* partition::next().  Objects live in mem, a sequence indexed by address;
\* part.m_state is the address of the partition's State member.  The copy
\* State retval = m_state is a new object; jump then advances m_state in place.
next(z, mem, part) ==
    LET copied == Append(mem, mem[part.m_state])
    IN  [mem    |-> [copied EXCEPT ![part.m_state] = jump(z, @, part.m_jump_coefficients)],
         retval |-> Len(copied)]

---------------------------------------------------------------------------
(* The transition matrix.  A bit-vector is the set of its set positions; a  *)
(* matrix is the array of its columns, each a bit-vector.                   *)

\* bit::vector::import_bits: the bits of a word array, position i * W + b for
\* bit b of word i
import_bits(W, words) ==
    UNION {{i * W + b : b \in words[i]} : i \in DOMAIN words}

\* bit::vector::export_bits: the N words of a bit-vector
export_bits(W, N, bits) ==
    Array([i \in 0 .. (N - 1) |-> {b - i * W : b \in {x \in bits : x \div W = i}}])

\* xso::transition_matrix<State>(): column k is the state read back after one
\* step() from the k'th unit state.
transition_matrix(z) ==
    Array([k \in 0 .. (bit_count(z) - 1) |->
              import_bits(z.W, get_state(z, step(z, seed(z, export_bits(z.W, z.N, {k})))))])

\* A faulty product: the union of the selected columns, not their xor
dot_union(T, bits) == UNION {T[k] : k \in bits \cap DOMAIN T}

\* bit::dot(T, bits): the matrix-vector product over GF(2), the xor of the
\* columns of T selected by bits
dot(T, bits) ==
    Loop(LAMBDA st : [i   |-> st.i + 1,
                      sum |-> IF st.i \in bits THEN Xor(st.sum, T[st.i]) ELSE st.sum],
         [i |-> 0, sum |-> {}], NWords(T)).sum

\* The matrix product T * T
squared(T) == Array([k \in DOMAIN T |-> dot(T, T[k])])

\* bit::pow2(T, e): T^(2^e), by e squarings
pow2(T, e) ==
    Loop(LAMBDA st : [i |-> st.i + 1, T |-> squared(st.T)], [i |-> 0, T |-> T], e).T

\* bit::pow2(T, e) for every e = 0 .. n: the array of the powers T^(2^e)
pow2_table(T, n) ==
    Loop(LAMBDA st : [i   |-> st.i + 1,
                      tab |-> Array(((st.i + 1) :> squared(st.tab[st.i])) @@ st.tab)],
         [i |-> 0, tab |-> Array(0 :> T)], n).tab

---------------------------------------------------------------------------
(* The state of the programs that use the library *)

VARIABLES
    type,          \* the State type in use: its template parameters
    engine,        \* the generator the program operates on
    tmp,           \* the second generator of the program (a copy of engine)
    op,            \* the last operation performed: [name, J]
    pc,            \* where the program is
    steps,         \* the number of state advances made so far
    p_words,       \* reduce01.cpp: the coefficients of p(x) handed to reduce
    trial,         \* reduce01.cpp: the size of the current trial, [J, J_is_pow2]
    xso_r,         \* reduce01.cpp: the result of xso::internal::reduce
    bit_r,         \* reduce01.cpp: the result of the reference reduction
    T,             \* transition02.cpp, transition04.cpp: the transition matrix
                   \* (partition01.cpp: its powers T^(2^e), e = 0 .. n)
    bits,          \* transition02.cpp: the bit-vector advanced by the matrix
    n_partitions,  \* partition01.cpp: the number of partitions asked for
    mem,           \* partition01.cpp: the State objects, indexed by address
    part,          \* partition01.cpp: the partition object
    g,             \* partition01.cpp: the addresses of the generators handed out
    ret,           \* the values next() returned, in order
    alone,         \* the frontier and the generators, each advanced in isolation
    calls          \* the number of calls made on the generators handed out

genVars == <<type, engine, tmp, op, pc, steps>>

reduceVars == <<p_words, trial, xso_r, bit_r>>

matrixVars == <<T, bits>>

partVars == <<n_partitions, mem, part, g, ret, alone, calls>>

vars == <<genVars, reduceVars, matrixVars, partVars>>

\* The value of a variable the running program does not have
None == <<>>

GenIdle ==
    type = None /\ engine = None /\ tmp = None /\ op = None /\ pc = None /\ steps = None

ReduceIdle == p_words = None /\ trial = None /\ xso_r = None /\ bit_r = None

MatrixIdle == T = None /\ bits = None

PartIdle ==
    /\ n_partitions = None /\ mem = None /\ part = None /\ g = None
    /\ ret = None /\ alone = None /\ calls = None

\* The number of step() calls a program makes before it starts its run
MaxSteps == 1

\* The number of seedings tried per State type
NumSeeds == 2

\* A literal jump size strictly between 0 and every n
MidJump == 17

\* How far beyond n (and beyond 2n) the literal jump sizes reach
Beyond == 5

\* The largest power-of-two exponent whose 2^J steps are also walked natively
MaxExp == 10

\* The type aliases of the source, by State type
Types ==
    {xoroshiro_2x32, xoshiro_4x32, xoroshiro_2x64, xoroshiro_2x64b,
     xoshiro_4x64, xoshiro_8x64, xoroshiro_16x64}

\* std::array<T, N> m_state = {1}: the default-initialised words
default_state(z) == Array([i \in 0 .. (z.N - 1) |-> IF i = 0 THEN {0} ELSE {}])

\* The words a program seeds with: seeding 0 is the default state, seeding
\* c > 0 sets in word i the bits b with b + i divisible by c + 2.
SeedWords(z, c) ==
    IF c = 0 THEN default_state(z)
    ELSE Array([i \in 0 .. (z.N - 1) |-> {b \in Bits(z.W) : (b + i) % (c + 2) = 0}])

\* No word of the logical state has a bit set
AllZero(z, s) == \A i \in 0 .. (z.N - 1) : word_at(z, s, i) = {}

\* The literal jump sizes tried: 0, inside (0, n), n itself, and beyond n
LiteralJumps(z) ==
    LET n == bit_count(z)
    IN  {0, 1, MidJump, n - 1, n, n + 1, n + Beyond, 2 * n + Beyond}

---------------------------------------------------------------------------
(* Jumping against discarding (jump02.cpp, jump01.cpp) *)

InitJump ==
    /\ type \in Types
    /\ \E c \in 0 .. (NumSeeds - 1) : engine = seed(type, SeedWords(type, c))
    /\ tmp = engine
    /\ op = [name |-> "seed", J |-> 0]
    /\ pc = "ready"
    /\ steps = 0
    /\ ReduceIdle /\ MatrixIdle /\ PartIdle

\* engine.step() before the run (the copy is not yet taken: tmp follows engine)
Step ==
    /\ pc = "ready"
    /\ steps < MaxSteps
    /\ engine' = step(type, engine)
    /\ tmp' = engine'
    /\ op' = [name |-> "step", J |-> 1]
    /\ steps' = steps + 1
    /\ UNCHANGED <<type, pc, reduceVars, matrixVars, partVars>>

\* jump02.cpp run(engine, J): copy engine, jump engine by the literal J,
\* discard J states of the copy.
Run02(J) ==
    /\ pc = "ready"
    /\ engine' = jump(type, engine, jump_coefficients(type, J, FALSE))
    /\ tmp' = discard(type, engine, J)
    /\ op' = [name |-> "jump", J |-> J]
    /\ pc' = "jumped"
    /\ UNCHANGED <<type, steps, reduceVars, matrixVars, partVars>>

\* The same run with the size given as a power of two, the way jump01.cpp
\* calls jump_coefficients: jump engine by 2^J through the pow2 interface,
\* discard 2^J states of the copy.
Run02Pow2(J) ==
    /\ pc = "ready"
    /\ engine' = jump(type, engine, jump_coefficients(type, J, TRUE))
    /\ tmp' = discard(type, engine, 2 ^ J)
    /\ op' = [name |-> "jump_pow2", J |-> J]
    /\ pc' = "jumped"
    /\ UNCHANGED <<type, steps, reduceVars, matrixVars, partVars>>

\* The verify line of the runs: engine() == tmp() draws one output from each
\* generator, which steps both.
Verify ==
    /\ pc = "jumped"
    /\ engine' = step(type, engine)
    /\ tmp' = step(type, tmp)
    /\ pc' = "verified"
    /\ UNCHANGED <<type, op, steps, reduceVars, matrixVars, partVars>>

Init == InitJump

Next ==
    \/ Step
    \/ \E J \in LiteralJumps(type) : Run02(J)
    \/ \E J \in 1 .. MaxExp : Run02Pow2(J)
    \/ Verify

Spec == Init /\ [][Next]_vars

\* C1: after jump(s, jump_coefficients(J, false)) the logical words of s are
\* those of a copy of the original s stepped exactly J times, for every shipped
\* State type and the literal sizes 0, inside (0, n), n and beyond n.
C1_JumpIsJSteps ==
    (op.name = "jump" /\ pc = "jumped") => get_state(type, engine) = get_state(type, tmp)

\* C1 witness: a literal jump beyond n has been made from a non-zero state
\* that had already been stepped, and it moved the state.
C1_Witness ==
    /\ op.name = "jump"
    /\ pc = "jumped"
    /\ op.J > bit_count(type)
    /\ steps > 0
    /\ ~AllZero(type, engine)
    /\ get_state(type, engine) = get_state(type, tmp)

\* C2: after jump(s, jump_coefficients(J, true)) the state is the one reached
\* by exactly 2^J native step() calls from the original s (J is an exponent,
\* not the distance), for every shipped State type and J = 1 .. MaxExp.
C2_Pow2JumpIsTwoToJSteps ==
    (op.name = "jump_pow2" /\ pc = "jumped") => get_state(type, engine) = get_state(type, tmp)

\* C2 witness: a pow2 jump whose 2^J reaches beyond n (so the squaring folds
\* the high half back) has been made from a non-zero state, and its result is
\* not the literal-J result.
C2_Witness ==
    /\ op.name = "jump_pow2"
    /\ pc = "jumped"
    /\ 2 ^ op.J > bit_count(type)
    /\ ~AllZero(type, engine)
    /\ get_state(type, engine) = get_state(type, tmp)
    /\ get_state(type, engine) # get_state(type, discard(type, seed(type, default_state(type)), op.J))

---------------------------------------------------------------------------
(* Repeated jumps with one precomputed polynomial (jump05.cpp) *)

\* The largest exponent k of the doubled jump
MaxDouble == 11

\* jump05.cpp compare: r is computed once by the pow2 interface and
\* xso::jump(x, r) is called n_jumps = 2 times on engine.  For comparison the
\* second generator is a copy jumped once with the polynomial of the next
\* exponent.
Run05(k) ==
    /\ pc = "ready"
    /\ LET r == jump_coefficients(type, k, TRUE)
       IN  engine' = jump(type, jump(type, engine, r), r)
    /\ tmp' = jump(type, engine, jump_coefficients(type, k + 1, TRUE))
    /\ op' = [name |-> "jump_twice", J |-> k]
    /\ pc' = "jumped"
    /\ UNCHANGED <<type, steps, reduceVars, matrixVars, partVars>>

NextDouble ==
    \/ Step
    \/ \E k \in 0 .. MaxDouble : Run05(k)
    \/ Verify

SpecDouble == InitJump /\ [][NextDouble]_vars

\* C6: the 2^k jump applied twice to s gives the state of the 2^(k+1) jump
\* applied once to a copy of s, for k = 0 .. MaxDouble (the spec's instance
\* is k = 10) and every shipped State type.
C6_TwiceIsNextPower ==
    (op.name = "jump_twice" /\ pc = "jumped") => get_state(type, engine) = get_state(type, tmp)

\* C6 witness: the instance k = 10 has run from a non-zero state, the two
\* generators agree, and the jump moved the state.
C6_Witness ==
    /\ op.name = "jump_twice"
    /\ op.J = 10
    /\ pc = "jumped"
    /\ ~AllZero(type, engine)
    /\ get_state(type, engine) = get_state(type, tmp)
    /\ get_state(type, engine) # default_state(type)

---------------------------------------------------------------------------
(* reduce against a reference reduction (reduce01.cpp) *)

\* The largest word count of the coefficient arrays tried
MaxWords == 3

\* How far beyond n the literal sizes of the trials reach
MaxOver == 20

\* The largest exponent of the power-of-two trials
MaxReduceExp == 6

\* The width of the words of the coefficient arrays tried (std::uint8_t)
ByteWidth == 8

\* The reference: x^e mod c(x), c(x) = x^n + p(x), by long division.  While the
\* remainder has a term x^d with d >= n, x^(d-n) * c(x) is subtracted from it.
RECURSIVE long_division(_, _, _)
long_division(n, p, r) ==
    IF r = {} \/ Max(r) < n THEN r
    ELSE LET d == Max(r)
         IN  long_division(n, p, Xor(r \ {d}, {x + (d - n) : x \in p}))

\* bit::polynomial::reduce(J, J_is_pow2) for c(x) = x^n + p(x)
reference_reduce(n, p, J, J_is_pow2) ==
    long_division(n, p, {IF J_is_pow2 THEN 2 ^ J ELSE J})

\* The words the trials draw the coefficient arrays from: every byte for a
\* one-word array, a few bytes (empty, full, end bits, mixed) for longer ones.
SampleBytes == {{}, {0}, {7}, {0, 3, 7}, {1, 2, 4, 5, 6}, 0 .. 7}

CoefficientArrays ==
    {Arr(<<w>>) : w \in SUBSET Bits(ByteWidth)}
        \cup UNION {[0 .. (N - 1) -> SampleBytes] : N \in 2 .. MaxWords}

InitReduce ==
    /\ p_words \in CoefficientArrays
    /\ trial = [J |-> 0, J_is_pow2 |-> FALSE]
    /\ xso_r = None
    /\ bit_r = None
    /\ GenIdle /\ MatrixIdle /\ PartIdle

\* One trial of reduce01.cpp check(): both reductions of the same size
Trial(J, J_is_pow2) ==
    /\ xso_r = None
    /\ trial' = [J |-> J, J_is_pow2 |-> J_is_pow2]
    /\ xso_r' = reduce(ByteWidth, p_words, J, J_is_pow2)
    /\ bit_r' = export_bits(ByteWidth, NWords(p_words),
                            reference_reduce(NWords(p_words) * ByteWidth,
                                             import_bits(ByteWidth, p_words), J, J_is_pow2))
    /\ UNCHANGED <<p_words, genVars, matrixVars, partVars>>

NextReduce ==
    \/ \E J \in 0 .. (NWords(p_words) * ByteWidth + MaxOver) : Trial(J, FALSE)
    \/ \E J \in 0 .. MaxReduceExp : Trial(J, TRUE)

SpecReduce == InitReduce /\ [][NextReduce]_vars

\* C3: for every coefficient array p and every J, reduce(p, J, false) is the
\* polynomial of degree < n congruent to x^J mod c(x) = x^n + p(x), and
\* reduce(p, J, true) is x^(2^J) mod c(x): the words equal those of the
\* reference long division.
C3_ReduceIsReference == (xso_r # None) => xso_r = bit_r

\* C3 witness: a trial beyond n on an array of an odd number of words above
\* one, with a non-zero p: the power table, the straddling riffle and the fold
\* of the high half have all been used, and the result is not zero.
C3_Witness ==
    /\ xso_r # None
    /\ NWords(p_words) = 3
    /\ trial.J_is_pow2
    /\ 2 ^ trial.J > 2 * NWords(p_words) * ByteWidth
    /\ xso_r = bit_r
    /\ import_bits(ByteWidth, xso_r) # {}
    /\ Cardinality(import_bits(ByteWidth, xso_r)) > 3

---------------------------------------------------------------------------
(* The two realizations of the xoroshiro step, side by side *)

\* The largest word count of the xoroshiro parameterizations tried
MaxRingWords == 5

\* The number of steps taken side by side (the 16-word ring wraps after 16)
MaxRingSteps == 18

\* The rotation and shift amounts the parameterizations are drawn from
ShiftSamples == {0, 3, 7}

\* xoroshiro<N, T, A, B, C> over 8-bit words for every N and sampled A, B, C,
\* and the xoroshiro types the source ships
RingTypes ==
    {[family |-> "xoroshiro", N |-> N, W |-> ByteWidth, A |-> a, B |-> b, C |-> c] :
        N \in 2 .. MaxRingWords, a \in ShiftSamples, b \in ShiftSamples, c \in ShiftSamples}
      \cup {z \in Types : z.family = "xoroshiro"}

InitRing ==
    /\ type \in RingTypes
    /\ \E c \in 0 .. (NumSeeds - 1) : engine = seed(type, SeedWords(type, c))
    /\ tmp = engine
    /\ op = [name |-> "seed", J |-> 0]
    /\ pc = "ring"
    /\ steps = 0
    /\ ReduceIdle /\ MatrixIdle /\ PartIdle

\* One step of each: engine by clever_step, its copy by simple_step
RingStep ==
    /\ pc = "ring"
    /\ steps < MaxRingSteps
    /\ engine' = clever_step(type, engine)
    /\ tmp' = simple_step(type, tmp)
    /\ op' = [name |-> "step", J |-> 1]
    /\ steps' = steps + 1
    /\ UNCHANGED <<type, pc, reduceVars, matrixVars, partVars>>

\* engine.seed(state) with the state read out of engine by get_state: the ring
\* is written back in logical order and m_final is reset
Reseed ==
    /\ pc = "ring"
    /\ op.name = "step"
    /\ engine' = seed(type, get_state(type, engine))
    /\ op' = [name |-> "seed", J |-> 0]
    /\ UNCHANGED <<type, tmp, pc, steps, reduceVars, matrixVars, partVars>>

NextRing == RingStep \/ Reseed

SpecRing == InitRing /\ [][NextRing]_vars

\* C7: for the xoroshiro recurrence with any word count N >= 2, any shift
\* parameters and any initial words, the ring-buffer realization (clever_step,
\* read through operator[] / get_state) and the array-shift realization
\* (simple_step) give the same logical words after every number of steps.
C7_RingIsShift ==
    (pc = "ring") => get_state(type, engine) = get_state(type, tmp)

\* C7 happens: a three-word ring has gone round more than twice, its offset is
\* away from the reset position, and the words are not all zero
C7_Witness ==
    /\ pc = "ring"
    /\ type.N = 3
    /\ steps = 7
    /\ engine.m_final # type.N - 1
    /\ type.B = 3
    /\ ~AllZero(type, engine)
    /\ get_state(type, engine) = tmp.m_state

---------------------------------------------------------------------------
(* Stepping against the transition matrix (transition02.cpp, transition01.cpp) *)

\* The number of steps every State type is advanced
MaxMatrixSteps == 12

\* The number of steps the 64-bit State type is advanced
LongRun == 1000

InitMatrix ==
    /\ type \in Types
    /\ \E c \in 0 .. (NumSeeds - 1) : engine = seed(type, SeedWords(type, c))
    /\ tmp = engine
    /\ op = [name |-> "seed", J |-> 0]
    /\ pc = "matrix"
    /\ steps = 0
    /\ T = transition_matrix(type)
    /\ bits = import_bits(type.W, get_state(type, engine))
    /\ ReduceIdle /\ PartIdle

\* transition02.cpp run(): the i'th turn of the two loops, bits = dot(T, bits)
\* and engine.step()
MatrixStep ==
    /\ pc = "matrix"
    /\ steps < (IF bit_count(type) = size_bits THEN LongRun ELSE MaxMatrixSteps)
    /\ bits' = dot(T, bits)
    /\ engine' = step(type, engine)
    /\ op' = [name |-> "step", J |-> 1]
    /\ steps' = steps + 1
    /\ UNCHANGED <<type, tmp, pc, T, reduceVars, partVars>>

NextMatrix == MatrixStep

SpecMatrix == InitMatrix /\ [][NextMatrix]_vars

\* C8: for every State type, every state s and every k >= 0, k step() calls
\* from s give the same bit-vector as k applications, to the bit-vector of s, of
\* the transition matrix T whose column j is the state read back after one step
\* from the j'th unit state.
C8_StepsAreMatrixPowers ==
    (pc = "matrix") => import_bits(type.W, get_state(type, engine)) = bits

\* C8 happens: ten steps and ten products have been made on a many-word state
C8_Witness ==
    /\ pc = "matrix"
    /\ type = xoroshiro_16x64
    /\ steps = 10
    /\ bits # import_bits(type.W, get_state(type, tmp))
    /\ bits # {}

---------------------------------------------------------------------------
(* Partitioning a stream (partition01.cpp) *)

\* The State type the partitions are cut from
ReferenceType == xoroshiro_2x32

PartitionTypes == {ReferenceType}

\* The largest small number of partitions asked for
MaxCount == 3

\* The largest log2 of a sub-stream length that is also walked natively
MaxLog == 3

\* The number of next() calls made on a partition
MaxNext == 4

\* The number of calls made on the generators handed out
MaxCalls == 2

\* The partition counts tried: the small ones, the powers of two just below
\* 2^64 (sub-streams short enough to walk), and the largest std::size_t.
PartitionCounts ==
    {SizeT(k) : k \in 0 .. MaxCount}
        \cup {{size_bits - e} : e \in 1 .. MaxLog}
        \cup {Bits(size_bits)}

InitPartition ==
    /\ type \in PartitionTypes
    /\ \E c \in 0 .. (NumSeeds - 1) : engine = seed(type, SeedWords(type, c))
    /\ tmp = engine
    /\ op = [name |-> "seed", J |-> 0]
    /\ pc = "ready"
    /\ steps = 0
    /\ T = pow2_table(transition_matrix(type), bit_count(type))
    /\ bits = None
    /\ ReduceIdle /\ PartIdle

\* xso::partition partition(rng, n): the constructor copies rng into its
\* m_state member, a new object (address 1), and caches the jump polynomial.
\* tmp keeps the parent as it was when partitioned.
Construct(P) ==
    /\ pc = "ready"
    /\ n_partitions' = P
    /\ mem' = <<engine>>
    /\ part' = partition(type, 1, P)
    /\ g' = <<>>
    /\ ret' = <<>>
    /\ alone' = [frontier |-> engine, subs |-> <<>>]
    /\ calls' = 0
    /\ tmp' = engine
    /\ op' = [name |-> "partition", J |-> 0]
    /\ pc' = "partitioned"
    /\ UNCHANGED <<type, engine, steps, reduceVars, matrixVars>>

\* g[i] = partition.next().  alone follows what a frontier and a copy that
\* share nothing would hold.
PartitionNext ==
    /\ pc = "partitioned"
    /\ Len(g) < MaxNext
    /\ LET r == next(type, mem, part)
       IN  /\ mem' = r.mem
           /\ g' = Append(g, r.retval)
           /\ ret' = Append(ret, r.mem[r.retval])
    /\ alone' = [frontier |-> jump(type, alone.frontier, part.m_jump_coefficients),
                 subs     |-> Append(alone.subs, alone.frontier)]
    /\ op' = [name |-> "next", J |-> Len(g)]
    /\ UNCHANGED <<type, engine, tmp, pc, steps, n_partitions, part, calls,
                   reduceVars, matrixVars>>

\* g[i](): one output drawn from a generator handed out, which steps it
Draw(i) ==
    /\ pc = "partitioned"
    /\ calls < MaxCalls
    /\ i \in 1 .. Len(g)
    /\ mem' = [mem EXCEPT ![g[i]] = step(type, @)]
    /\ alone' = [alone EXCEPT !.subs[i] = step(type, @)]
    /\ calls' = calls + 1
    /\ op' = [name |-> "step", J |-> i]
    /\ UNCHANGED <<type, engine, tmp, pc, steps, n_partitions, part, g, ret,
                   reduceVars, matrixVars>>

\* xso::jump(g[i], MidJump): a literal jump of a generator handed out
Skip(i) ==
    /\ pc = "partitioned"
    /\ calls < MaxCalls
    /\ i \in 1 .. Len(g)
    /\ LET c == jump_coefficients(type, MidJump, FALSE)
       IN  /\ mem' = [mem EXCEPT ![g[i]] = jump(type, @, c)]
           /\ alone' = [alone EXCEPT !.subs[i] = jump(type, @, c)]
    /\ calls' = calls + 1
    /\ op' = [name |-> "jump", J |-> i]
    /\ UNCHANGED <<type, engine, tmp, pc, steps, n_partitions, part, g, ret,
                   reduceVars, matrixVars>>

NextPartition ==
    \/ \E P \in PartitionCounts : Construct(P)
    \/ PartitionNext
    \/ \E i \in 1 .. MaxNext : Draw(i)
    \/ \E i \in 1 .. MaxNext : Skip(i)

SpecPartition == InitPartition /\ [][NextPartition]_vars

\* k = ceil(log2(max(P, 1))) of a partition count P held in a std::size_t
CeilLog2(P) ==
    IF P = {} \/ P = {0} THEN 0
    ELSE IF Cardinality(P) = 1 THEN Max(P) ELSE Max(P) + 1

\* The state 2^e step() calls after s: walked when 2^e is small, and otherwise
\* the matrix jump of transition04.cpp, the product of T^(2^e) with the
\* bit-vector of s seeded back into a generator
AdvancePow2(z, s, e) ==
    IF e <= MaxLog THEN discard(z, s, 2 ^ e)
    ELSE seed(z, export_bits(z.W, z.N,
                             dot(T[e], import_bits(z.W, get_state(z, s)))))

\* The state 2^e - 1 step() calls after s, 2^e - 1 = 2^0 + 2^1 + ... + 2^(e-1)
AdvanceLast(z, s, e) ==
    Loop(LAMBDA st : [i |-> st.i + 1, s |-> AdvancePow2(z, st.s, st.i)],
         [i |-> 0, s |-> s], e).s

\* The parent advanced by i sub-stream lengths of 2^e steps
SubStreamStart(z, parent, e, i) ==
    Loop(LAMBDA st : [i |-> st.i + 1, s |-> AdvancePow2(z, st.s, e)],
         [i |-> 0, s |-> parent], i).s

\* C4: for partition(parent, P) the i'th value returned by next(), i = 0, 1,
\* 2, ..., is the parent's state advanced by exactly i * 2^(n-k) steps, with
\* k = ceil(log2(max(P, 1))): the first call returns the parent's state and
\* every later start is the previous one stepped on by one sub-stream length.
C4_NextIsParentAdvanced ==
    (pc = "partitioned") =>
        LET e == bit_count(type) - CeilLog2(n_partitions)
        IN  \A i \in 1 .. Len(ret) :
                get_state(type, ret[i]) =
                    get_state(type, SubStreamStart(type, tmp, e, i - 1))

\* C4 happens: three sub-streams of 2^63 steps have been handed out for P = 2,
\* the third two whole sub-stream lengths from the parent
C4_Witness ==
    /\ pc = "partitioned"
    /\ n_partitions = SizeT(2)
    /\ Len(ret) = 3
    /\ get_state(type, ret[1]) = get_state(type, tmp)
    /\ get_state(type, ret[3]) # get_state(type, ret[2])
    /\ get_state(type, ret[2]) # get_state(type, tmp)

\* C5: the first P' = 2^k sub-streams handed out by next() do not overlap: for
\* distinct i, j < P' no state sub-stream i visits in its 2^(n-k) steps is
\* visited by sub-stream j.  Checked on the two ends of every sub-stream: the
\* start of one is neither the start nor the last state of another.
C5_SubStreamsDisjoint ==
    (pc = "partitioned" /\ CeilLog2(n_partitions) <= MaxLog) =>
        LET k == CeilLog2(n_partitions)
            e == bit_count(type) - k
        IN  (Len(ret) >= 2 ^ k) =>
                \A i, j \in 1 .. (2 ^ k) :
                    (i # j) =>
                        /\ get_state(type, ret[j]) # get_state(type, ret[i])
                        /\ get_state(type, ret[j]) #
                               get_state(type, AdvanceLast(type, ret[i], e))

\* C9: starting from a non-zero seeded state, no state is all-zero after any
\* sequence of step() calls, jump() calls with coefficients of
\* jump_coefficients (literal or power-of-two), and partition next() calls.
C9_NeverAllZero ==
    /\ ~AllZero(type, engine)
    /\ (pc = "partitioned") => \A a \in 1 .. Len(mem) : ~AllZero(type, mem[a])

\* C9 happens: the partition has handed out generators by next(), and of those
\* one was jumped and then stepped
C9_Witness ==
    /\ pc = "partitioned"
    /\ Len(g) = 2
    /\ calls = 2
    /\ op.name = "step"
    /\ mem[g[1]] = step(type, jump(type, ret[1], jump_coefficients(type, MidJump, FALSE)))
    /\ mem[g[2]] = ret[2]

\* C10: the states next() returns share no mutable data with the partition or
\* with each other: under any interleaving of calls on the generators handed
\* out with further next() calls, every generator and the frontier hold what
\* they would hold had each run in isolation.
C10_NoSharedState ==
    (pc = "partitioned") =>
        /\ mem[part.m_state] = alone.frontier
        /\ \A i \in 1 .. Len(g) : mem[g[i]] = alone.subs[i]
        /\ \A i, j \in 1 .. Len(g) : (i # j) => g[i] # g[j]
        /\ \A i \in 1 .. Len(g) : g[i] # part.m_state

\* C10 happens: a generator was handed out and stepped, then next() was called
\* again, then the first generator was stepped once more
C10_Witness ==
    /\ pc = "partitioned"
    /\ Len(g) = 2
    /\ calls = 2
    /\ op.name = "step"
    /\ mem[g[1]] = step(type, step(type, ret[1]))
    /\ mem[g[2]] = ret[2]
    /\ mem[part.m_state] # ret[2]

---------------------------------------------------------------------------
(* State types without a table entry *)

\* The largest state, in bits, a partition is constructed for
MaxBits == 128

\* Near misses of the shipped types: one template parameter changed (A, B, the
\* word type, the word count, and for xoroshiro C), and xoroshiro over 8-bit
\* words.  None of them is matched by a branch of the if-constexpr chains.
OtherTypes ==
    (UNION {{[z EXCEPT !.A = z.A + 1], [z EXCEPT !.B = z.B + 1],
             [z EXCEPT !.W = IF z.W = 32 THEN 64 ELSE 32],
             [z EXCEPT !.N = 2 * z.N]} : z \in Types}
       \cup {[z EXCEPT !.C = z.C + 1] : z \in {y \in Types : y.family = "xoroshiro"}}
       \cup {[family |-> "xoroshiro", N |-> 2, W |-> ByteWidth, A |-> 3, B |-> 3, C |-> 7]})
      \ Types

InitTables ==
    /\ type \in Types \cup OtherTypes
    /\ engine = seed(type, default_state(type))
    /\ tmp = engine
    /\ op = [name |-> "seed", J |-> 0]
    /\ pc = "ready"
    /\ steps = 0
    /\ p_words = Uninit(type.N)
    /\ trial = None /\ xso_r = None /\ bit_r = None
    /\ MatrixIdle /\ PartIdle

\* State::characteristic_coefficients(p_words.begin()): the table is copied to
\* the destination, or the call throws and the destination is as it was
TryCoefficients ==
    /\ pc = "ready"
    /\ LET r == characteristic_coefficients(type)
       IN  /\ p_words' = IF r = invalid_argument THEN p_words ELSE r
           /\ op' = [name |-> IF r = invalid_argument THEN "throw" ELSE "return", J |-> 0]
    /\ pc' = "characteristic_coefficients"
    /\ UNCHANGED <<type, engine, tmp, steps, trial, xso_r, bit_r, matrixVars, partVars>>

\* xso_r = xso::jump_coefficients<State>(J, J_is_pow2): the polynomial is
\* returned and assigned, or the call throws and nothing is assigned
TryJumpCoefficients(J, J_is_pow2) ==
    /\ pc = "ready"
    /\ LET r == jump_coefficients(type, J, J_is_pow2)
       IN  /\ xso_r' = IF r = invalid_argument THEN xso_r ELSE r
           /\ op' = [name |-> IF r = invalid_argument THEN "throw" ELSE "return", J |-> J]
    /\ trial' = [J |-> J, J_is_pow2 |-> J_is_pow2]
    /\ pc' = "jump_coefficients"
    /\ UNCHANGED <<type, engine, tmp, steps, p_words, bit_r, matrixVars, partVars>>

\* xso::partition partition(engine, P): the constructor returns and the object
\* exists, or jump_coefficients throws out of it and there is no object
TryPartition(P) ==
    /\ pc = "ready"
    /\ bit_count(type) <= MaxBits
    /\ LET q == partition(type, 1, P)
       IN  IF q.m_jump_coefficients = invalid_argument
           THEN /\ op' = [name |-> "throw", J |-> 0]
                /\ UNCHANGED <<mem, part>>
           ELSE /\ op' = [name |-> "return", J |-> 0]
                /\ mem' = <<engine>>
                /\ part' = q
    /\ n_partitions' = P
    /\ pc' = "partition"
    /\ UNCHANGED <<type, engine, tmp, steps, reduceVars, matrixVars, g, ret, alone, calls>>

\* The partition counts tried: those of the partition program, and 2^b + 1
\* for a few b, one past an exact power of two
TableCounts == PartitionCounts \cup {{b, 0} : b \in {2, MaxLog, size_bits - 1}}

NextTables ==
    \/ TryCoefficients
    \/ \E J \in {0, 1, MidJump} : \E b \in BOOLEAN : TryJumpCoefficients(J, b)
    \/ \E P \in TableCounts : TryPartition(P)

SpecTables == InitTables /\ [][NextTables]_vars

\* C11: for a (family, word type, word count, shifts) combination with no
\* table entry characteristic_coefficients throws and writes nothing to its
\* destination, and jump_coefficients and the partition constructor throw too,
\* leaving no coefficients and no partition; for each of the seven shipped
\* types the calls return, characteristic_coefficients with N words of W bits.
C11_NoTableThrows ==
    (pc \in {"characteristic_coefficients", "jump_coefficients", "partition"}) =>
        IF type \in Types
        THEN /\ op.name = "return"
             /\ (pc = "characteristic_coefficients") =>
                    /\ DOMAIN p_words = 0 .. (type.N - 1)
                    /\ \A i \in DOMAIN p_words : p_words[i] \subseteq Bits(type.W)
             /\ (pc = "jump_coefficients") => xso_r # None
             /\ (pc = "partition") => part # None
        ELSE /\ op.name = "throw"
             /\ p_words = Uninit(type.N)
             /\ xso_r = None
             /\ part = None /\ mem = None

\* C11 happens: the partition constructor threw for xoshiro<4, uint32_t, 9, 12>
C11_Witness ==
    /\ pc = "partition"
    /\ type = [xoshiro_4x32 EXCEPT !.B = 12]
    /\ op.name = "throw"
    /\ part = None

\* ceil(log2(max(P, 1))) for a std::size_t word P: the least k with
\* max(P, 1) <= 2^k
LeastLog2(P) ==
    Min({k \in 0 .. size_bits : P = {} \/ Max(P) < k \/ P = {k}})

\* Step i of the long division of a square by c(x) = x^n + p(x): the term of
\* degree d = 2n - 2 - i, if present, is replaced by x^(d-n) p(x)
divide_term(n, p, st) ==
    LET d == 2 * n - 2 - st.i
    IN  [i |-> st.i + 1,
         r |-> IF d \in st.r
               THEN {b \in 0 .. (d - 1) : (b \in st.r) # (b - (d - n) \in p)}
               ELSE st.r]

\* r(x)^2 mod c(x) for r of degree below n: the square has the terms x^(2i),
\* and its terms of degree 2n - 2 down to n are divided out
reference_square(n, p, r) ==
    Loop(LAMBDA st : divide_term(n, p, st),
         [i |-> 0, r |-> {2 * k : k \in r}], n - 1).r

\* x^(2^e) mod c(x): x squared e times, each square divided by c(x)
reference_pow2(n, p, e) ==
    Loop(LAMBDA st : [i |-> st.i + 1, r |-> reference_square(n, p, st.r)],
         [i |-> 0, r |-> long_division(n, p, {1})], e).r

\* C12: partition(state, P) caches the coefficients of x^(2^(n-k)) mod c(x)
\* with k = ceil(log2(max(P, 1))) for every count P: 0 is treated as 1 (k = 0),
\* an exact power of two 2^k gives k (not k + 1), and one more than 2^k gives
\* k + 1.
C12_CachedPowerOfTwo ==
    (pc = "partition" /\ op.name = "return") =>
        LET n == bit_count(type)
            k == LeastLog2(n_partitions)
            c == import_bits(type.W, characteristic_coefficients(type))
        IN  part.m_jump_coefficients =
                export_bits(type.W, type.N, reference_pow2(n, c, n - k))

\* C12 happens: a partition was constructed for the exact power of two
\* P = 2^63, for which k = 63
C12_Witness ==
    /\ pc = "partition" /\ op.name = "return"
    /\ n_partitions = {size_bits - 1}
    /\ part # None

---------------------------------------------------------------------------
(* The tables against the step functions: c(T) = 0 *)

\* Every unit state is tried for a state of at most this many bits
AllUnitsBits == 256

\* The state with the single bit b of its n bits set
UnitWords(z, b) ==
    Array([i \in 0 .. (z.N - 1) |-> IF i = b \div z.W THEN {b % z.W} ELSE {}])

\* The unit states tried: all of them for a small state, and otherwise the
\* first and last bit of the first, second and last word
UnitBits(z) ==
    IF bit_count(z) <= AllUnitsBits THEN 0 .. (bit_count(z) - 1)
    ELSE {0, z.W - 1, z.W, 2 * z.W - 1, bit_count(z) - z.W, bit_count(z) - 1}

InitCharacteristic ==
    /\ type \in Types
    /\ \/ \E c \in 0 .. NumSeeds : engine = seed(type, SeedWords(type, c))
       \/ \E b \in UnitBits(type) : engine = seed(type, UnitWords(type, b))
    /\ tmp = engine
    /\ op = [name |-> "seed", J |-> 0]
    /\ pc = "ready"
    /\ steps = 0
    /\ ReduceIdle /\ MatrixIdle /\ PartIdle

\* The table used as a jump polynomial: engine becomes the sum of its states
\* after i steps over the i with p_i = 1, while the copy takes n native steps
TableJump ==
    /\ pc = "ready"
    /\ engine' = jump(type, engine, characteristic_coefficients(type))
    /\ tmp' = discard(type, engine, bit_count(type))
    /\ op' = [name |-> "jump", J |-> bit_count(type)]
    /\ pc' = "jumped"
    /\ UNCHANGED <<type, steps, reduceVars, matrixVars, partVars>>

NextCharacteristic == Step \/ TableJump

SpecCharacteristic == InitCharacteristic /\ [][NextCharacteristic]_vars

\* C13: for each shipped table p and its step function, the state after n
\* native steps is the xor, over the i with p_i = 1, of the states after i
\* native steps: c(T) s = 0 for c(x) = x^n + p(x).
C13_TableAnnihilatesStep ==
    (pc = "jumped") => get_state(type, engine) = get_state(type, tmp)

\* C13 happens: the 1024-bit state came back from the sum over its table and
\* from 1024 steps, and is not the zero state
C13_Witness ==
    /\ pc = "jumped"
    /\ type = xoroshiro_16x64
    /\ op.J = bit_count(type)
    /\ ~AllZero(type, tmp)

---------------------------------------------------------------------------
(* The sizes of the jump test: jump, then compare one output *)

\* The large literal size and the large exponent of the jump test
Million == 1000000
LargeExp == 32

\* The largest number of states the copy discards by native steps; larger
\* sizes are taken by the matrix jump, where the powers of T are at hand
MaxWalk == 1024

\* The literal sizes and the exponents tried
TestJumps == {0, 1, MidJump, Million}
TestExps == {1, MaxExp, LargeExp}

\* The state J step() calls after s for a size given by its binary digits,
\* J the sum of 2^e over e in digits: the sum taken one power at a time
AdvanceDigits(z, s, digits) ==
    Loop(LAMBDA st : [i |-> st.i + 1,
                      s |-> IF st.i \in digits THEN AdvancePow2(z, st.s, st.i) ELSE st.s],
         [i |-> 0, s |-> s], size_bits).s

InitSizes ==
    /\ type \in Types
    /\ \E c \in 0 .. (NumSeeds - 1) : engine = seed(type, SeedWords(type, c))
    /\ tmp = engine
    /\ op = [name |-> "seed", J |-> 0]
    /\ pc = "ready"
    /\ steps = 0
    /\ T = IF type = ReferenceType
           THEN pow2_table(transition_matrix(type), bit_count(type))
           ELSE None
    /\ bits = None
    /\ ReduceIdle /\ PartIdle

\* run(engine, J): engine jumps by the literal J; the copy discards J states
\* (by the matrix jump when J is beyond MaxWalk)
RunLiteral(J) ==
    /\ pc = "ready"
    /\ J <= MaxWalk \/ T # None
    /\ engine' = jump(type, engine, jump_coefficients(type, J, FALSE))
    /\ tmp' = IF J <= MaxWalk THEN discard(type, engine, J)
              ELSE AdvanceDigits(type, engine, SizeT(J))
    /\ op' = [name |-> "jump", J |-> J]
    /\ pc' = "jumped"
    /\ UNCHANGED <<type, steps, reduceVars, matrixVars, partVars>>

\* The same with the size 2^J given by its exponent
RunPow2(J) ==
    /\ pc = "ready"
    /\ J <= MaxExp \/ T # None
    /\ engine' = jump(type, engine, jump_coefficients(type, J, TRUE))
    /\ tmp' = IF J <= MaxExp THEN discard(type, engine, 2 ^ J)
              ELSE AdvanceDigits(type, engine, {J})
    /\ op' = [name |-> "jump_pow2", J |-> J]
    /\ pc' = "jumped"
    /\ UNCHANGED <<type, steps, reduceVars, matrixVars, partVars>>

NextSizes ==
    \/ Step
    \/ \E J \in TestJumps : RunLiteral(J)
    \/ \E J \in TestExps \cup {0} : RunPow2(J)
    \/ Verify

SpecSizes == InitSizes /\ [][NextSizes]_vars

\* C14 as stated: the jumped state stepped once more is the state J (2^J)
\* native steps from the same initial state.
C14_StepAfterJumpIsJSteps ==
    (pc = "jumped") => get_state(type, step(type, engine)) = get_state(type, tmp)

\* C14: for the literal sizes 0, 1, 17 and 1000000 and the exponents 1, 10
\* and 32, the jumped state is the state J (2^J) native steps from the same
\* initial state, and after one more native step of each, the jumped
\* generator and the stepped copy hold the same state again: J + 1 (2^J + 1)
\* native steps from the initial state.
C14_JumpThenStepIsOneMore ==
    /\ (pc = "jumped") => get_state(type, engine) = get_state(type, tmp)
    /\ (pc = "verified") => get_state(type, engine) = get_state(type, tmp)

\* C14 happens: the jump by 1000000 and the copy both made their one more step
C14_Witness ==
    /\ pc = "verified"
    /\ op = [name |-> "jump", J |-> Million]
    /\ ~AllZero(type, engine)

---------------------------------------------------------------------------
(* Seeding a state that has been stepped *)

\* The shipped types, and xoroshiro over 8-bit words for every word count
SeedTypes ==
    Types \cup {[family |-> "xoroshiro", N |-> N, W |-> ByteWidth, A |-> 3, B |-> 3, C |-> 7] :
                   N \in 2 .. MaxRingWords}

InitSeed ==
    /\ type \in SeedTypes
    /\ \E c \in 0 .. (NumSeeds - 1) :
           /\ p_words = SeedWords(type, c)
           /\ engine = seed(type, p_words)
    /\ tmp = engine
    /\ op = [name |-> "seed", J |-> 0]
    /\ pc = "seeding"
    /\ steps = 0
    /\ trial = None /\ xso_r = None /\ bit_r = None
    /\ MatrixIdle /\ PartIdle

\* One step() of the generator and of its copy
SeedStep ==
    /\ pc = "seeding"
    /\ steps < MaxRingSteps
    /\ engine' = step(type, engine)
    /\ tmp' = step(type, tmp)
    /\ op' = [name |-> "step", J |-> 1]
    /\ steps' = steps + 1
    /\ UNCHANGED <<type, pc, reduceVars, matrixVars, partVars>>

\* engine.seed(words) after any number of steps; the copy is taken anew
SeedAgain(c) ==
    /\ pc = "seeding"
    /\ p_words' = SeedWords(type, c)
    /\ engine' = seed(type, p_words')
    /\ tmp' = engine'
    /\ op' = [name |-> "seed", J |-> 0]
    /\ UNCHANGED <<type, pc, steps, trial, xso_r, bit_r, matrixVars, partVars>>

\* engine.seed(words) with the words get_state reads out of engine itself;
\* the copy is left as it is
SeedBack ==
    /\ pc = "seeding"
    /\ p_words' = get_state(type, engine)
    /\ engine' = seed(type, p_words')
    /\ op' = [name |-> "reseed", J |-> 0]
    /\ UNCHANGED <<type, tmp, pc, steps, trial, xso_r, bit_r, matrixVars, partVars>>

NextSeed == SeedStep \/ (\E c \in 0 .. (NumSeeds - 1) : SeedAgain(c)) \/ SeedBack

SpecSeed == InitSeed /\ [][NextSeed]_vars

\* C15: right after seed(words) get_state and operator[] give exactly the N
\* words in their order, and the ring-buffer offset is reset (logical word i
\* is physical word i) whatever steps came before; and a generator seeded with
\* its own get_state goes through the same states from then on as a copy that
\* was not reseeded.
C15_SeedRoundTrip ==
    /\ (op.name \in {"seed", "reseed"}) =>
           /\ get_state(type, engine) = p_words
           /\ \A i \in 0 .. (type.N - 1) :
                  /\ word_at(type, engine, i) = p_words[i]
                  /\ engine.m_state[i] = p_words[i]
           /\ (type.family = "xoroshiro") => engine.m_final = type.N - 1
    /\ (pc = "seeding") => get_state(type, engine) = get_state(type, tmp)

\* C15 happens: the 16-word ring was seeded with its own state part of the
\* way round, so that its offset differs from the copy's, and both have been
\* stepped since
C15_Witness ==
    /\ type = xoroshiro_16x64
    /\ op.name = "step"
    /\ steps = MaxRingSteps
    /\ engine.m_final # tmp.m_final
    /\ get_state(type, engine) = get_state(type, tmp)

---------------------------------------------------------------------------
(* The 16-word ring against the reference implementation (basic02.cpp) *)

\* The reference generator is written for 16 words of 64 bits
VignaType == xoroshiro_16x64

\* A reference generator as the original has it: the cycle index starts at 0
vigna_seed_published(words) == [s |-> words, p |-> 0]

\* old::xoroshiro_16x64_plus_plus after compare has copied the words in:
\* the member p keeps its initializer, 15
vigna_seed(words) == [s |-> words, p |-> 15]

\* old::xoroshiro_16x64_plus_plus::next, the state it leaves
vigna_next(c) ==
    LET q   == c.p
        p   == (c.p + 1) % 16
        s0  == c.s[p]
        s15 == Xor(c.s[q], s0)
    IN  [s |-> [c.s EXCEPT ![q] = Xor(Xor(Rotl(64, s0, 25), s15), Shl(64, s15, 27)),
                           ![p] = Rotl(64, s15, 36)],
         p |-> p]

\* The words the comparison starts from: the seedings, and one bit set at the
\* bottom or the top of one word
VignaWords ==
    {SeedWords(VignaType, c) : c \in 0 .. (NumSeeds - 1)}
        \cup {UnitWords(VignaType, b) : b \in {VignaType.W * i + j :
                                               i \in 0 .. (VignaType.N - 1),
                                               j \in {0, VignaType.W - 1}}}

\* compare(x, c): c.s[i] = x[i] for every word of a newly seeded x
InitVigna ==
    /\ type = VignaType
    /\ p_words \in VignaWords
    /\ engine = seed(type, p_words)
    /\ tmp = vigna_seed(get_state(type, engine))
    /\ op = [name |-> "seed", J |-> 0]
    /\ pc = "compare"
    /\ steps = 0
    /\ trial = None /\ xso_r = None /\ bit_r = None
    /\ MatrixIdle /\ PartIdle

\* One trial of compare: x() steps the state, c.next() the reference
VignaTrial ==
    /\ pc = "compare"
    /\ steps < MaxRingSteps
    /\ engine' = step(type, engine)
    /\ tmp' = vigna_next(tmp)
    /\ op' = [name |-> "step", J |-> 1]
    /\ steps' = steps + 1
    /\ UNCHANGED <<type, pc, reduceVars, matrixVars, partVars>>

NextVigna == VignaTrial

SpecVigna == InitVigna /\ [][NextVigna]_vars

\* C16: the 16-word ring-buffer state and the reference next() with its cycle
\* index started at 15 hold the same physical array and the same index
\* (m_final = p) after every number of steps; the first step mixes physical
\* word 0, the first, with physical word 15, the final, and leaves the other
\* words.
C16_RingIsReference ==
    (pc = "compare") =>
        /\ engine.m_state = tmp.s
        /\ engine.m_final = tmp.p
        /\ (steps = 1) =>
               LET s_final == Xor(p_words[15], p_words[0])
               IN  /\ engine.m_final = 0
                   /\ engine.m_state[15] =
                          Xor(Xor(Rotl(64, p_words[0], 25), Shl(64, s_final, 27)), s_final)
                   /\ engine.m_state[0] = Rotl(64, s_final, 36)
                   /\ \A i \in 1 .. 14 : engine.m_state[i] = p_words[i]

\* C16 happens: the ring has gone round once and two steps more, from words
\* with bits set in the first and in the final word
C16_Witness ==
    /\ pc = "compare"
    /\ steps = MaxRingSteps
    /\ p_words = SeedWords(VignaType, 1)
    /\ engine.m_final = (MaxRingSteps - 1) % 16
    /\ engine.m_state = tmp.s

---------------------------------------------------------------------------
(* discard and operator() against single steps *)

\* The farthest the generator is advanced, and the most one discard skips
MaxAhead == 5
MaxDiscard == 3

\* engine is advanced by discard and operator(), steps counting how far; tmp
\* is a copy advanced by single step() calls, calls counting them; ret lists
\* for each output the state the scrambler was given and how far it was
InitDiscard ==
    /\ type \in Types
    /\ \E c \in 0 .. (NumSeeds - 1) : engine = seed(type, SeedWords(type, c))
    /\ tmp = engine
    /\ op = [name |-> "seed", J |-> 0]
    /\ pc = "drawing"
    /\ steps = 0
    /\ calls = 0
    /\ ret = <<>>
    /\ n_partitions = None /\ mem = None /\ part = None /\ g = None /\ alone = None
    /\ ReduceIdle /\ MatrixIdle

\* engine.discard(k)
Discard(k) ==
    /\ pc = "drawing"
    /\ steps + k <= MaxAhead
    /\ engine' = discard(type, engine, k)
    /\ steps' = steps + k
    /\ op' = [name |-> "discard", J |-> k]
    /\ UNCHANGED <<type, tmp, pc, reduceVars, matrixVars, partVars>>

\* engine(): retval = m_scrambler(m_state); step(); return retval;
Call ==
    /\ pc = "drawing"
    /\ steps < MaxAhead
    /\ ret' = Append(ret, [at |-> steps, state |-> get_state(type, engine)])
    /\ engine' = step(type, engine)
    /\ steps' = steps + 1
    /\ op' = [name |-> "call", J |-> 1]
    /\ UNCHANGED <<type, tmp, pc, reduceVars, matrixVars,
                   n_partitions, mem, part, g, alone, calls>>

\* tmp.step()
CopyStep ==
    /\ pc = "drawing"
    /\ calls < MaxAhead
    /\ tmp' = step(type, tmp)
    /\ calls' = calls + 1
    /\ UNCHANGED <<type, engine, op, pc, steps, reduceVars, matrixVars,
                   n_partitions, mem, part, g, ret, alone>>

NextDiscard == (\E k \in 0 .. MaxDiscard : Discard(k)) \/ Call \/ CopyStep

SpecDiscard == InitDiscard /\ [][NextDiscard]_vars

\* C17: a generator advanced by discard(z) calls, z >= 0, and operator() calls
\* that add up to k is in the state of a copy after k step() calls, and the
\* output of each operator() call was computed from the state before that
\* call's step: the state of the copy after as many step() calls as the
\* generator had been advanced before the call.
C17_DiscardIsSteps ==
    (pc = "drawing") =>
        /\ (steps = calls) => get_state(type, engine) = get_state(type, tmp)
        /\ \A i \in 1 .. Len(ret) :
               (ret[i].at = calls) => ret[i].state = get_state(type, tmp)

\* C17 happens: an output was drawn from the initial state, three states
\* were skipped by discard, another output was drawn, and the copy has made
\* its five single steps
C17_Witness ==
    /\ pc = "drawing"
    /\ steps = MaxAhead /\ calls = MaxAhead
    /\ Len(ret) = 2
    /\ ret[1].at = 0 /\ ret[2].at = MaxAhead - 1
    /\ op.name = "call"
    /\ ~AllZero(type, engine)

\* C18: reduce(p, 0, true) is r(x) = x, coefficient 1 and no other, for every
\* coefficient array p (the squaring loop does not run), and the jump by
\* jump_coefficients(0, true) leaves the state exactly one native step on.
C18_PowZeroIsOneStep ==
    [][(pc = "ready" /\ pc' = "jumped" /\ op' = [name |-> "jump_pow2", J |-> 0]) =>
          /\ \A p \in CoefficientArrays :
                 reduce(ByteWidth, p, 0, TRUE) = set(ByteWidth, Zeros(NWords(p)), 1)
          /\ jump_coefficients(type, 0, TRUE) = set(type.W, Zeros(type.N), 1)
          /\ get_state(type, engine') = get_state(type, step(type, engine))]_vars

\* C18 happens: the jump by 2^0 was made on the 16-word ring after a step, so
\* that the offset of the ring is reset by the jump but not in the copy
C18_Witness ==
    /\ pc = "jumped"
    /\ op = [name |-> "jump_pow2", J |-> 0]
    /\ type = xoroshiro_16x64
    /\ steps = 1
    /\ engine.m_final # tmp.m_final
    /\ get_state(type, engine) = get_state(type, tmp)

---------------------------------------------------------------------------
(* The step() calls of one jump *)

\* The polynomials jumped with: the reductions of a few sizes (a single low
\* coefficient, the top coefficient alone, the table itself, a dense
\* polynomial)
JumpPolynomials(z) ==
    {jump_coefficients(z, J, FALSE) :
        J \in {0, 1, MidJump, bit_count(z) - 1, bit_count(z), bit_count(z) + Beyond}}

InitCalls ==
    /\ type \in Types
    /\ \E c \in 0 .. (NumSeeds - 1) : engine = seed(type, SeedWords(type, c))
    /\ tmp = engine
    /\ op = [name |-> "seed", J |-> 0]
    /\ pc = "ready"
    /\ steps = 0
    /\ calls = 0
    /\ xso_r = None
    /\ p_words = None /\ trial = None /\ bit_r = None
    /\ n_partitions = None /\ mem = None /\ part = None /\ g = None
    /\ ret = None /\ alone = None
    /\ MatrixIdle

\* xso::jump(engine, r), the step() calls the call makes counted
JumpWith(r) ==
    /\ pc = "ready"
    /\ xso_r' = r
    /\ LET run == jump_loops(type, engine, r)
       IN  /\ engine' = seed(type, run.sum)
           /\ calls' = run.calls
    /\ op' = [name |-> "jump", J |-> 0]
    /\ pc' = "jumped"
    /\ UNCHANGED <<type, tmp, steps, p_words, trial, bit_r, matrixVars,
                   n_partitions, mem, part, g, ret, alone>>

NextCalls == Step \/ \E r \in JumpPolynomials(type) : JumpWith(r)

SpecCalls == InitCalls /\ [][NextCalls]_vars

\* The index of the highest set coefficient of r, -1 for the zero polynomial
HighestSet(W, r) ==
    LET coefficients == import_bits(W, r)
    IN  IF coefficients = {} THEN -1 ELSE Max(coefficients)

\* C19 as stated: one jump makes (index of the highest set coefficient of
\* r) + 1 step() calls, none for the positions above that coefficient.
C19_StepsUpToHighestSet ==
    (pc = "jumped") => calls = HighestSet(type.W, xso_r) + 1

\* C19: one jump makes exactly n step() calls, n the number of state bits,
\* one for every bit position of r whether or not a coefficient is set at or
\* above it.
C19_StepsForEveryPosition ==
    (pc = "jumped") => calls = bit_count(type)

\* C19 happens: a jump with r(x) = x, whose highest set coefficient is at
\* index 1, has made its step() calls
C19_Witness ==
    /\ pc = "jumped"
    /\ xso_r = set(type.W, Zeros(type.N), 1)
    /\ calls > 2

\* C20: for a literal J < n reduce returns the polynomial with the single
\* coefficient J set, whatever p is; for J = n it returns p unchanged; and
\* only for J > n is the result that of the square & multiply loop.
C20_LiteralCases ==
    (xso_r # None /\ ~trial.J_is_pow2) =>
        LET n == NWords(p_words) * ByteWidth
        IN  /\ (trial.J < n) =>
                   /\ import_bits(ByteWidth, xso_r) = {trial.J}
                   /\ NWords(xso_r) = NWords(p_words)
            /\ (trial.J = n) => xso_r = p_words
            /\ (trial.J > n) =>
                   xso_r = square_and_multiply(ByteWidth, p_words,
                                               power_mod(ByteWidth, p_words), trial.J)

\* C20 happens: J = n on a three-word p with coefficients in every word
C20_Witness ==
    /\ xso_r # None
    /\ ~trial.J_is_pow2
    /\ NWords(p_words) = MaxWords
    /\ trial.J = MaxWords * ByteWidth
    /\ \A i \in DOMAIN p_words : p_words[i] # {}
    /\ xso_r = p_words

---------------------------------------------------------------------------
(* One square_step on any polynomial *)

\* The words the polynomials squared over more than one word are drawn from
SquareBytes == {{}, {0}, {7}, {1, 2, 4, 5, 6}, 0 .. 7}

\* The polynomials r squared for a p of N words: every r for one word, and
\* the arrays of sampled words for more
SquarePolynomials(N) ==
    IF N = 1 THEN {Arr(<<w>>) : w \in SUBSET Bits(ByteWidth)}
    ELSE [0 .. (N - 1) -> SquareBytes]

InitSquare ==
    /\ p_words \in CoefficientArrays
    /\ trial = None
    /\ xso_r = None
    /\ bit_r = None
    /\ GenIdle /\ MatrixIdle /\ PartIdle

\* square_step(r) for c(x) = x^n + p(x): r is riffled into itself and the
\* work array hi, and hi is folded in through power_mod.  trial keeps r and
\* the work array; bit_r is the long division of the square.
SquareStep(r) ==
    /\ xso_r = None
    /\ LET riffled == riffle(ByteWidth, [poly |-> r, hi |-> Uninit(NWords(r))],
                             "poly", "poly", "hi")
       IN  /\ trial' = [r |-> r, lo |-> riffled.poly, hi |-> riffled.hi]
           /\ xso_r' = square_reduce(ByteWidth, power_mod(ByteWidth, p_words), riffled)
    /\ bit_r' = export_bits(ByteWidth, NWords(p_words),
                            reference_square(NWords(p_words) * ByteWidth,
                                             import_bits(ByteWidth, p_words),
                                             import_bits(ByteWidth, r)))
    /\ UNCHANGED <<p_words, genVars, matrixVars, partVars>>

NextSquare == \E r \in SquarePolynomials(NWords(p_words)) : SquareStep(r)

SpecSquare == InitSquare /\ [][NextSquare]_vars

\* C21: for every r of degree < n, square_step leaves r(x)^2 mod c(x): the
\* low n coefficients of the riffled square with power_mod[i] = x^(n+i) mod
\* c(x) added for every set bit i of the high part.  Every set bit of the high
\* part is an even number of positions from the first one, so the scan of
\* every second position from the first to the last set bit meets them all,
\* and the positions scanned are within 0 .. n-1.
C21_SquareStep ==
    (xso_r # None) =>
        LET n  == NWords(p_words) * ByteWidth
            pm == power_mod(ByteWidth, p_words)
            hi == import_bits(ByteWidth, trial.hi)
            first == first_set(ByteWidth, trial.hi)
            final == final_set(ByteWidth, trial.hi)
        IN  /\ xso_r = bit_r
            /\ xso_r = Loop(LAMBDA st : [i    |-> st.i + 1,
                                         poly |-> IF st.i \in hi
                                                  THEN add(st.poly, pm[st.i + 1])
                                                  ELSE st.poly],
                            [i |-> 0, poly |-> trial.lo], n).poly
            /\ \A i \in hi : (i - first) % 2 = 0
            /\ (hi # {}) => (0 <= first /\ final <= n - 1 /\ Len(pm) = n)

\* C21 happens: a three-word polynomial with its top coefficient set was
\* squared, and the high part has its last set bit at n - 2
C21_Witness ==
    /\ xso_r # None
    /\ NWords(p_words) = MaxWords
    /\ monic(ByteWidth, trial.r)
    /\ final_set(ByteWidth, trial.hi) = MaxWords * ByteWidth - 2
    /\ first_set(ByteWidth, trial.hi) < final_set(ByteWidth, trial.hi)
    /\ \E i \in DOMAIN p_words : p_words[i] # {}

---------------------------------------------------------------------------
(* The array riffle, into separate arrays and in place *)

\* The largest word count riffled
MaxRiffleWords == 4

\* The words of width W the arrays are drawn from: empty, the end bits alone,
\* the two bits either side of the middle, every third bit, and full
RiffleWords(W) ==
    {{}, {0}, {W - 1}, {(W \div 2) - 1, W \div 2}, {b \in Bits(W) : b % 3 = 0}, Ones(W)}

\* type is the instantiation [W, N] of the template and p_words the array
\* src; xso_r is the memory after riffle(src, src, hi) and bit_r the memory
\* after riffle(src, lo, hi) with three arrays
InitRiffle ==
    /\ \E W \in WordWidths : \E N \in 1 .. MaxRiffleWords :
           /\ type = [W |-> W, N |-> N]
           /\ p_words \in [0 .. (N - 1) -> RiffleWords(W)]
    /\ xso_r = None
    /\ bit_r = None
    /\ trial = None
    /\ engine = None /\ tmp = None /\ op = None /\ pc = None /\ steps = None
    /\ MatrixIdle /\ PartIdle

\* The two calls on copies of the same src
RiffleBoth ==
    /\ xso_r = None
    /\ xso_r' = riffle(type.W, [src |-> p_words, hi |-> Uninit(type.N)],
                       "src", "src", "hi")
    /\ bit_r' = riffle(type.W, [src |-> p_words, lo |-> Uninit(type.N),
                                hi |-> Uninit(type.N)],
                       "src", "lo", "hi")
    /\ UNCHANGED <<p_words, trial, genVars, matrixVars, partVars>>

NextRiffle == RiffleBoth

SpecRiffle == InitRiffle /\ [][NextRiffle]_vars

\* C22: riffle sends bit k of src, counted across the words from bit 0 of
\* word 0, to bit 2k of [lo | hi] and sets no other bit, so that every set bit
\* of lo and of hi is at an even offset within its array, for every word
\* width and every word count, even or odd.
C22_RiffleDoubles ==
    (bit_r # None) =>
        LET n  == type.N * type.W
            lo == import_bits(type.W, bit_r.lo)
            hi == import_bits(type.W, bit_r.hi)
        IN  /\ lo \cup {n + i : i \in hi} = {2 * k : k \in import_bits(type.W, p_words)}
            /\ lo \subseteq 0 .. (n - 1) /\ hi \subseteq 0 .. (n - 1)
            /\ \A i \in lo \cup hi : i % 2 = 0
            /\ bit_r.src = p_words

\* C22 happens: three 16-bit words, the middle one straddling lo and hi, have
\* been riffled, with a bit set in each half of the middle word
C22_Witness ==
    /\ bit_r # None
    /\ type = [W |-> 16, N |-> 3]
    /\ p_words[1] = {7, 8}
    /\ 14 \in bit_r.lo[2]
    /\ 0 \in bit_r.hi[0]

\* C23: riffle(src, src, hi), lo aliased to src, leaves in src and hi what
\* riffle(src, lo, hi) leaves in a separate lo and hi, for every word count
\* (an odd one, where a source word straddles lo and hi, included) and every
\* src.
C23_RiffleInPlace ==
    (xso_r # None) => (xso_r.src = bit_r.lo /\ xso_r.hi = bit_r.hi)

\* C23 happens: an odd number of full words was riffled in place, and src is
\* no longer what it was
C23_Witness ==
    /\ xso_r # None
    /\ type.N = 3
    /\ \A i \in DOMAIN p_words : p_words[i] = Ones(type.W)
    /\ xso_r.src # p_words
    /\ xso_r.src = bit_r.lo

---------------------------------------------------------------------------
(* Three generators stepped side by side: two states and their xor *)

\* The words the generators are seeded with: all zero, the seedings of the
\* programs, and single bits in the first, second and last word
LinearWords(z) ==
    {Zeros(z.N)}
      \cup {SeedWords(z, c) : c \in 0 .. NumSeeds}
      \cup {UnitWords(z, b) : b \in {0, z.W, bit_count(z) - 1}}

InitLinear ==
    /\ type \in SeedTypes
    /\ p_words \in LinearWords(type)
    /\ trial \in LinearWords(type)
    /\ engine = seed(type, p_words)
    /\ tmp = seed(type, trial)
    /\ alone = seed(type, XorArr(p_words, trial))
    /\ op = [name |-> "seed", J |-> 0]
    /\ pc = "linear"
    /\ steps = 0
    /\ xso_r = None /\ bit_r = None
    /\ n_partitions = None /\ mem = None /\ part = None /\ g = None
    /\ ret = None /\ calls = None
    /\ MatrixIdle

\* One step() of each of the three generators
LinearStep ==
    /\ pc = "linear"
    /\ steps < MaxRingSteps
    /\ engine' = step(type, engine)
    /\ tmp' = step(type, tmp)
    /\ alone' = step(type, alone)
    /\ op' = [name |-> "step", J |-> 1]
    /\ steps' = steps + 1
    /\ UNCHANGED <<type, pc, reduceVars, matrixVars,
                   n_partitions, mem, part, g, ret, calls>>

\* tmp.seed(state) with the state get_state reads out of tmp: the words stay,
\* the ring of tmp starts anew while the other two rings keep their offset
LinearReseed ==
    /\ pc = "linear"
    /\ op.name = "step"
    /\ tmp' = seed(type, get_state(type, tmp))
    /\ op' = [name |-> "reseed", J |-> 0]
    /\ UNCHANGED <<type, engine, pc, steps, reduceVars, matrixVars, partVars>>

NextLinear == LinearStep \/ LinearReseed

SpecLinear == InitLinear /\ [][NextLinear]_vars

\* C24: step() is linear over GF(2) for both families and every supported
\* word count: the generator seeded with a XOR b has, after every number of
\* steps, logical words that are the XOR of the logical words of the
\* generators seeded with a and with b and stepped as often.
C24_StepIsLinear ==
    (pc = "linear") =>
        get_state(type, alone) = XorArr(get_state(type, engine), get_state(type, tmp))

\* C24 happens: the 8-word xoshiro was stepped from two different non-zero
\* states and from their xor, which is not zero either
C24_Witness ==
    /\ pc = "linear"
    /\ type = xoshiro_8x64
    /\ steps = MaxRingSteps
    /\ ~AllZero(type, engine) /\ ~AllZero(type, tmp) /\ ~AllZero(type, alone)
    /\ get_state(type, engine) # get_state(type, tmp)

\* C25: seed() takes an all-zero word range like any other (the state holds
\* the zero words, nothing is thrown), and from the all-zero state every
\* step() leaves every word of the state zero, for xoshiro with 4 and 8 words
\* and xoroshiro with any word count.
C25_ZeroStaysZero ==
    (pc = "linear" /\ p_words = Zeros(type.N)) =>
        /\ engine.m_state = Zeros(type.N)
        /\ AllZero(type, engine)

\* C25 happens: a ring of five words seeded with zeros has been stepped more
\* than once round
C25_Witness ==
    /\ pc = "linear"
    /\ type.family = "xoroshiro" /\ type.N = MaxRingWords
    /\ p_words = Zeros(type.N)
    /\ steps = MaxRingSteps
    /\ engine.m_final # type.N - 1
    /\ AllZero(type, engine)

\* C26: the xoshiro generator with N = 4 words of W = 32 bits and A = 9,
\* B = 11, seeded with the words (1, 0, 0, 0), which are also its default
\* words, is after exactly one step() in the state (1, 1, 1, 0).
C26_DefaultOneStep ==
    [][(/\ pc = "seeding"
        /\ type.family = "xoshiro" /\ type.N = 4 /\ type.W = 32
        /\ type.A = 9 /\ type.B = 11
        /\ op.name = "seed"
        /\ p_words = Arr(<<{0}, {}, {}, {}>>)
        /\ op'.name = "step") =>
          /\ default_state(type) = p_words
          /\ engine.m_state = p_words
          /\ get_state(type, engine') = Arr(<<{0}, {0}, {0}, {}>>)]_vars

\* C26 happens: xoshiro_4x32 was seeded with (1, 0, 0, 0) and has made its
\* one step
C26_Witness ==
    /\ pc = "seeding"
    /\ type = xoshiro_4x32
    /\ p_words = Arr(<<{0}, {}, {}, {}>>)
    /\ op.name = "step"
    /\ steps = 1
    /\ engine.m_state = Arr(<<{0}, {0}, {0}, {}>>)

\* C27: the P' = 2^k sub-streams of 2^(n-k) steps total 2^n steps, one more
\* than the cycle of 2^n - 1 states: after exactly P' calls of next() the
\* partition's frontier is the parent advanced by one step() (and not the
\* parent); and for partition(state, 1) and partition(state, 0) the cached
\* polynomial is x^(2^n) mod c(x) and each next() returns the state one
\* step() after the one returned before.
C27_FrontierWrapsByOne ==
    (pc = "partitioned" /\ CeilLog2(n_partitions) < MaxLog) =>
        LET k == CeilLog2(n_partitions)
            n == bit_count(type)
        IN  /\ (Len(ret) = 2 ^ k) =>
                   /\ get_state(type, mem[part.m_state]) =
                          get_state(type, step(type, tmp))
                   /\ get_state(type, mem[part.m_state]) # get_state(type, tmp)
            /\ (k = 0) =>
                   \A i \in 1 .. (Len(ret) - 1) :
                       get_state(type, ret[i + 1]) =
                           get_state(type, step(type, ret[i]))
            /\ (k = 0 /\ op.name = "partition") =>
                   part.m_jump_coefficients =
                       export_bits(type.W, type.N,
                           reference_pow2(n,
                               import_bits(type.W, characteristic_coefficients(type)), n))

\* C27 happens: three partitions were asked for, so that P' = 4, and the four
\* sub-streams have been handed out
C27_Witness ==
    /\ pc = "partitioned"
    /\ n_partitions = SizeT(3)
    /\ Len(ret) = 4
    /\ get_state(type, mem[part.m_state]) = get_state(type, step(type, tmp))

---------------------------------------------------------------------------
(* The ring buffer under steps, seedings and jumps *)

\* xoroshiro<N, T, A, B, C> over 8-bit words for every word count
OffsetTypes == SeedTypes \ Types

\* The number of step() calls of one run: more than once round every ring
MaxOffsetSteps == 7

\* The number of jumps of one run
MaxOffsetJumps == 2

\* The polynomials jumped with: x, x^(n-1) and two dense ones
OffsetPolynomials(z) ==
    {UnitWords(z, 1), UnitWords(z, bit_count(z) - 1), SeedWords(z, 1), SeedWords(z, 2)}

\* engine is the generator; tmp holds the same words in an array that is
\* shifted at every step, so that its logical word i is its physical word i
InitOffset ==
    /\ type \in OffsetTypes
    /\ \E c \in 0 .. (NumSeeds - 1) : engine = seed(type, SeedWords(type, c))
    /\ tmp = engine
    /\ op = [name |-> "seed", J |-> 0]
    /\ pc = "offset"
    /\ steps = 0
    /\ calls = 0
    /\ g = 0
    /\ ret = type.N - 1
    /\ n_partitions = None /\ mem = None /\ part = None /\ alone = None
    /\ ReduceIdle /\ MatrixIdle

\* engine.step(); calls counts the step() calls since the last seed or jump
OffsetStep ==
    /\ pc = "offset"
    /\ steps < MaxOffsetSteps
    /\ engine' = step(type, engine)
    /\ tmp' = simple_step(type, tmp)
    /\ steps' = steps + 1
    /\ calls' = calls + 1
    /\ op' = [name |-> "step", J |-> 1]
    /\ UNCHANGED <<type, pc, g, ret, n_partitions, mem, part, alone,
                   reduceVars, matrixVars>>

\* engine.seed(state) with the words get_state reads out of engine
OffsetSeed ==
    /\ pc = "offset"
    /\ op.name = "step"
    /\ engine' = seed(type, get_state(type, engine))
    /\ calls' = 0
    /\ op' = [name |-> "seed", J |-> 0]
    /\ UNCHANGED <<type, tmp, pc, steps, g, ret, n_partitions, mem, part, alone,
                   reduceVars, matrixVars>>

\* xso::jump(engine, r) and xso::jump(tmp, r); ret keeps the offset m_final
\* engine had when the jump was entered
OffsetJump(r) ==
    /\ pc = "offset"
    /\ g < MaxOffsetJumps
    /\ engine' = jump(type, engine, r)
    /\ tmp' = jump(type, tmp, r)
    /\ ret' = engine.m_final
    /\ g' = g + 1
    /\ calls' = 0
    /\ op' = [name |-> "jump", J |-> 0]
    /\ UNCHANGED <<type, pc, steps, n_partitions, mem, part, alone,
                   reduceVars, matrixVars>>

NextOffset == OffsetStep \/ OffsetSeed \/ \E r \in OffsetPolynomials(type) : OffsetJump(r)

SpecOffset == InitOffset /\ [][NextOffset]_vars

\* C28: jump() on a ring-buffer state (xoroshiro, N > 2) does not depend on
\* the rotation offset at entry: the jumped generator holds what the jump
\* gives from the same logical words at the offset of a fresh seeding; and
\* after any jump m_final = N - 1.
C28_JumpIgnoresOffset ==
    (pc = "offset" /\ type.N > 2 /\ op.name = "jump") =>
        /\ engine.m_final = type.N - 1
        /\ get_state(type, engine) = get_state(type, tmp)
        /\ engine.m_state = tmp.m_state

\* C28 happens: a ring of five words was jumped from an offset in the middle
\* of the ring
C28_Witness ==
    /\ pc = "offset"
    /\ type.N = MaxRingWords
    /\ op.name = "jump"
    /\ ret = 2
    /\ engine.m_final = type.N - 1
    /\ ~AllZero(type, engine)

\* C29: m_final always lies in 0 .. N - 1; for N = 2 it is always N - 1; for
\* N > 2, after k step() calls since the last seed or jump, it is
\* (N - 1 + k) mod N and logical word i is the physical word at slot
\* (i + m_final + 1) mod N.
C29_FinalFollowsSteps ==
    (pc = "offset") =>
        /\ engine.m_final \in 0 .. (type.N - 1)
        /\ (type.N = 2) => engine.m_final = type.N - 1
        /\ (type.N > 2) =>
               /\ engine.m_final = (type.N - 1 + calls) % type.N
               /\ \A i \in 0 .. (type.N - 1) :
                      tmp.m_state[i] = engine.m_state[(i + engine.m_final + 1) % type.N]

\* C29 happens: a ring of three words has been stepped from a jump on, more
\* than once round
C29_Witness ==
    /\ pc = "offset"
    /\ type.N = 3
    /\ g > 0
    /\ op.name = "step"
    /\ calls = 4
    /\ engine.m_final = 0
    /\ ~AllZero(type, engine)

---------------------------------------------------------------------------
(* Steps and literal jumps in any order *)

\* The number of step() calls of one run
MaxSequenceSteps == 2

\* The number of jumps of one run
MaxSequenceJumps == 2

\* The literal jump sizes of a run: one below n and one above it
SequenceJumps(z) == {MidJump, bit_count(z) + Beyond}

\* xso_r holds jump_coefficients(J) for the sizes used; tmp is the copy that
\* is advanced by step() calls only; steps is the distance covered
InitSequence ==
    /\ type \in Types
    /\ xso_r = [J \in SequenceJumps(type) |-> jump_coefficients(type, J, FALSE)]
    /\ \E c \in 0 .. (NumSeeds - 1) : engine = seed(type, SeedWords(type, c))
    /\ tmp = engine
    /\ op = [name |-> "seed", J |-> 0]
    /\ pc = "sequence"
    /\ steps = 0
    /\ calls = 0
    /\ g = 0
    /\ p_words = None /\ trial = None /\ bit_r = None
    /\ n_partitions = None /\ mem = None /\ part = None /\ ret = None /\ alone = None
    /\ MatrixIdle

\* engine.step()
SequenceStep ==
    /\ pc = "sequence"
    /\ calls < MaxSequenceSteps
    /\ engine' = step(type, engine)
    /\ tmp' = step(type, tmp)
    /\ steps' = steps + 1
    /\ calls' = calls + 1
    /\ op' = [name |-> "step", J |-> 1]
    /\ UNCHANGED <<type, pc, g, n_partitions, mem, part, ret, alone,
                   reduceVars, matrixVars>>

\* xso::jump(engine, jump_coefficients(J)); the copy discards J states
SequenceJump(J) ==
    /\ pc = "sequence"
    /\ g < MaxSequenceJumps
    /\ engine' = jump(type, engine, xso_r[J])
    /\ tmp' = discard(type, tmp, J)
    /\ steps' = steps + J
    /\ g' = g + 1
    /\ op' = [name |-> "jump", J |-> J]
    /\ UNCHANGED <<type, pc, calls, n_partitions, mem, part, ret, alone,
                   reduceVars, matrixVars>>

NextSequence == SequenceStep \/ \E J \in SequenceJumps(type) : SequenceJump(J)

SpecSequence == InitSequence /\ [][NextSequence]_vars

\* C30: jumps and steps commute and add: after any sequence of step() calls
\* and jumps with jump_coefficients for literal sizes J1, J2, ... a generator
\* started in a non-zero state s is in the state of s advanced by single
\* steps over the total distance, whatever the order of the operations.
C30_JumpsAndStepsAdd ==
    (pc = "sequence") =>
        get_state(type, engine) = get_state(type, tmp)

\* C30 happens: the 16-word ring has made a step, a jump below n and, last, a
\* jump above n, and is not in the zero state
C30_Witness ==
    /\ pc = "sequence"
    /\ type = xoroshiro_16x64
    /\ op = [name |-> "jump", J |-> bit_count(type) + Beyond]
    /\ g = 2 /\ calls = 1
    /\ steps = MidJump + 1 + bit_count(type) + Beyond
    /\ ~AllZero(type, engine)

===========================================================================
